---- MODULE Spec2Model ----
(***************************************************************************)
(* The world viewer of dmah42/critters (web_server/static/js/main.js, the  *)
(* current revision of which is src/unnamed/part_000): the entity display  *)
(* cache, its reconciliation against fetched entity lists, the render      *)
(* loop, the hit-tester and the selection.                                 *)
(*                                                                         *)
(* Numbers.  The viewer computes positions in IEEE doubles.  Here a        *)
(* position is an integer count of 1/Res of a tile, and the product        *)
(* (target - current) * 0.1 is rounded to the nearest representable value, *)
(* as the floating-point product is.  Pixel coordinates are kept scaled by *)
(* 2 * Res so that the half tile of the transform stays an integer.        *)
(*                                                                         *)
(* Nullable values.  A JavaScript value that may be null is a sequence of  *)
(* length at most one: << >> is null, << v >> is the value v.              *)
(***************************************************************************)
EXTENDS Integers, Sequences, FiniteSets, TLC

\* ------------------------------------------------------------------ bounds

\* entity ids the World Service hands out: 1..MaxId
MaxId == 3
\* longest entity list of one response
MaxList == 2
\* fetches of the viewport handlers (manual and live) in flight at once
MaxInFlight == 2

\* position units per tile
Res == 10

Ids == 1..MaxId

\* positions the World Service reports, in position units
Points == {<<0, 5>>, <<5, 0>>}

\* viewports the user can enter in the input fields
Views == {[x |-> 5, y |-> 5, w |-> 10, h |-> 10],
          [x |-> 10, y |-> 10, w |-> 20, h |-> 20]}

\* the drawing surface: <canvas id="world-canvas">
canvas == [width |-> 600, height |-> 600]

\* pointer positions of a click, in surface pixels relative to the canvas
Pointers == {<<30, 60>>, <<33, 57>>, <<15, 30>>, <<45, 45>>}

\* ------------------------------------------------------------- the service

\* an EntitySnapshot as the entities endpoint returns it; health stands for
\* the numeric fields the detail panel formats with toFixed: << >> is a field
\* the response left out (undefined)
Snapshots ==
    {[id |-> i, x |-> p[1], y |-> p[2], health |-> <<100>>] :
        i \in Ids, p \in Points}

IdsOf(list) == {list[k].id : k \in 1..Len(list)}

\* a response of the entities endpoint: a list of snapshots, one per entity
\* (ids are unique in a response)
CritterLists ==
    {l \in UNION {[1..n -> Snapshots] : n \in 0..MaxList} :
        \A j, k \in 1..Len(l) : j # k => l[j].id # l[k].id}

\* ------------------------------------------------------------------- state

VARIABLES
    currentTerrainData,   \* << >> or << the view the tiles were fetched for >>
    currentView,          \* the viewport
    critterDisplayData,   \* id -> DisplayRecord
    selectedCritter,      \* << >> or << snapshot >>
    statsContent,         \* << >> (the default message) or << snapshot shown >>
    imageContainer,       \* << >> or << id of the portrait shown >>
    eventLogContainer,    \* what the event log panel shows
    inflight,             \* fetches of handleManualUpdate / handleLiveUpdate
    eventsPending,        \* ids with an event-log fetch in flight
    rafScheduled,         \* a frame is scheduled with requestAnimationFrame
    lastOp,               \* history: the handler step that ran last
    lastList,             \* history: << >> or << the list applied last >>
    lastClick,            \* history: << >> or << pointer of the last click >>
    frames,               \* history: frames run (counted by SpecAnim only)
    histArgs,             \* << >> or << arguments of a histogram or age chart >>
    histogram,            \* << >> or << what createHistogramData returned >>
    bandArgs,             \* << >> or << a bin label with its thresholds >>
    bandColor,            \* << >> or << the colour the bar callback returns >>
    charts,               \* stats.js: chart family -> << >> or << chart >>
    built,                \* history: chart family -> number of new Chart(...)
    dashInflight,         \* stats.js: fetches in flight, by endpoint
    refresh,              \* history: what the last refresh handler did
    trainCharts,          \* training.js: rewardChart and concordanceChart
    epsilon,              \* training.js: << >> or << tick the epsilons are of >>
    trainInflight,        \* training.js: fetches in flight
    tileArg,              \* << >> or << the tile drawTerrain is at >>
    fillStyle,            \* << >> or << ctx.fillStyle as assigned last >>
    drawn,                \* history: id -> centre of the marker drawn last
    inputs,               \* values of the x, y, width and height inputs
    search                \* window.location.search

vars == <<currentTerrainData, currentView, critterDisplayData, selectedCritter,
          statsContent, imageContainer, eventLogContainer, inflight,
          eventsPending, rafScheduled, lastOp, lastList, lastClick, frames,
          histArgs, histogram, bandArgs, bandColor, charts, built,
          dashInflight, refresh, trainCharts, epsilon, trainInflight,
          tileArg, fillStyle, drawn, inputs, search>>

viewVars == <<currentTerrainData, currentView>>
histVars == <<histArgs, histogram>>
bandVars == <<bandArgs, bandColor>>
dashVars == <<charts, built, dashInflight>>
trainVars == <<trainCharts, epsilon, trainInflight>>
tileVars == <<tileArg, fillStyle, drawn>>
linkVars == <<inputs, search>>
pageVars == <<bandVars, dashVars, refresh, trainVars, tileVars, linkVars>>

\* the chart variables of stats.js
DashFamilies == {"population", "health", "energy", "hunger", "thirst", "age",
                 "goal", "death"}

\* no bar is being coloured
BandIdle == bandArgs = << >> /\ bandColor = << >>

\* stats.js as loaded: no chart yet, no fetch in flight
DashIdle ==
    /\ charts = [f \in DashFamilies |-> << >>]
    /\ built = [f \in DashFamilies |-> 0]
    /\ dashInflight = [history |-> 0, deaths |-> 0]

\* no refresh handler has run
RefreshIdle ==
    refresh = [done |-> {}, created |-> {}, failed |-> << >>,
               from |-> << >>, uncaught |-> FALSE]

\* training.js not loaded
TrainIdle ==
    /\ trainCharts = << >>
    /\ epsilon = << >>
    /\ trainInflight = 0

\* no tile is being painted, the markers drawn are not recorded
TileIdle == tileArg = << >> /\ fillStyle = << >> /\ drawn = << >>

\* the inputs and the location are not looked at
LinkIdle == inputs = << >> /\ search = << >>

\* nothing of the dashboards, the tile painter or the deep link is in use
PagesIdle ==
    /\ BandIdle
    /\ DashIdle
    /\ RefreshIdle
    /\ TrainIdle
    /\ TileIdle
    /\ LinkIdle
panelVars == <<statsContent, imageContainer, eventLogContainer>>
selVars == <<selectedCritter, statsContent, imageContainer, eventLogContainer,
             eventsPending>>

\* the viewer's state but for the name of the last step
viewerVars == <<viewVars, critterDisplayData, selVars, inflight, rafScheduled,
                lastList, lastClick, frames>>

\* ------------------------------------------------------- display records

\* the object literal of a first observation: current := target := position
NewRecord(critter) ==
    [currentX |-> critter.x, currentY |-> critter.y,
     targetX |-> critter.x, targetY |-> critter.y,
     critter |-> critter]

\* the property name under which an id is stored: its decimal digits
RECURSIVE Digits(_)
Digits(n) == IF n < 10 THEN <<n>> ELSE Append(Digits(n \div 10), n % 10)

KeyOf(id) == Digits(id)

\* parseInt of a property name
RECURSIVE ParseInt(_)
ParseInt(key) ==
    IF Len(key) = 0 THEN 0
    ELSE 10 * ParseInt(SubSeq(key, 1, Len(key) - 1)) + key[Len(key)]

\* mutant: the removal loop deletes nothing
RemoveAbsentKeepsAll(cache, list) == cache

\* for (const id in critterDisplayData) if (!live.has(parseInt(id))) delete
RemoveAbsent(cache, list) ==
    LET liveCritterIds == IdsOf(list)
        kept == {id \in DOMAIN cache : ParseInt(KeyOf(id)) \in liveCritterIds}
    IN  [id \in kept |-> cache[id]]

\* mutant: a known id is treated as a new one, its position is reset
UpsertLiveResets(cache, critter) ==
    [id \in DOMAIN cache \cup {critter.id} |->
        IF id = critter.id THEN NewRecord(critter) ELSE cache[id]]

\* mutant: a known id is snapped to its old target before it is retargeted
UpsertLiveSnaps(cache, critter) ==
    IF critter.id \in DOMAIN cache
    THEN [cache EXCEPT ![critter.id] =
             [currentX |-> cache[critter.id].targetX,
              currentY |-> cache[critter.id].targetY,
              targetX |-> critter.x, targetY |-> critter.y,
              critter |-> critter]]
    ELSE [id \in DOMAIN cache \cup {critter.id} |->
             IF id = critter.id THEN NewRecord(critter) ELSE cache[id]]

\* the body of the loop over the fetched critters of a live update
UpsertLive(cache, critter) ==
    IF critter.id \in DOMAIN cache
    THEN [cache EXCEPT ![critter.id] =
             [@ EXCEPT !.targetX = critter.x, !.targetY = critter.y,
                       !.critter = critter]]
    ELSE [id \in DOMAIN cache \cup {critter.id} |->
             IF id = critter.id THEN NewRecord(critter) ELSE cache[id]]

RECURSIVE UpsertAll(_, _)
UpsertAll(cache, list) ==
    IF Len(list) = 0 THEN cache
    ELSE UpsertAll(UpsertLive(cache, Head(list)), Tail(list))

\* mutant: the handler gives up control between its two loops, so that the
\* cache is left with the absent ids removed and the fetched ones not applied
ReconcileLiveYields(cache, list) == RemoveAbsent(cache, list)

\* the reconciliation of handleLiveUpdate after a successful fetch
ReconcileLive(cache, list) == UpsertAll(RemoveAbsent(cache, list), list)

\* the body of the loop of a manual update: the record is always replaced
PutFresh(cache, critter) ==
    [id \in DOMAIN cache \cup {critter.id} |->
        IF id = critter.id THEN NewRecord(critter) ELSE cache[id]]

RECURSIVE PutAll(_, _)
PutAll(cache, list) ==
    IF Len(list) = 0 THEN cache
    ELSE PutAll(PutFresh(cache, Head(list)), Tail(list))

EmptyCache == [id \in {} |-> 0]

\* mutant: the cache is not cleared before the loop
RebuildManualKeeps(list) == PutAll(critterDisplayData, list)

\* critterDisplayData = {} and the loop of handleManualUpdate
RebuildManual(list) == PutAll(EmptyCache, list)

\* ------------------------------------------------------------ render loop

CRITTER_DRAW_RADIUS == 3

Abs(n) == IF n < 0 THEN 0 - n ELSE n

\* a surface length in pixels, in the scaled pixels of the model
Scaled(px) == 2 * Res * px

tileWidth(view) == canvas.width \div view.w
tileHeight(view) == canvas.height \div view.h

\* the centre of the marker a frame draws for a record, in scaled pixels:
\* canvasX + tileWidth / 2 with canvasX = (currentX - startX) * tileWidth
\* and startX = currentView.x - currentView.w / 2
MarkerX(r, view) ==
    (2 * r.currentX - (2 * view.x - view.w) * Res) * tileWidth(view)
        + Res * tileWidth(view)

MarkerY(r, view) ==
    (2 * r.currentY - (2 * view.y - view.h) * Res) * tileHeight(view)
        + Res * tileHeight(view)

\* mutant: the product is cut to a whole number of units, as parseInt would
TimesTenthTruncates(d) ==
    IF d >= 0 THEN d \div 10 ELSE 0 - ((0 - d) \div 10)

\* d * 0.1, rounded to the nearest position unit
TimesTenth(d) ==
    IF d >= 0 THEN (d + 5) \div 10 ELSE 0 - ((5 - d) \div 10)

\* mutant: a smoothing constant of 1.2
AdvanceOvershoots(current, target) ==
    current + TimesTenth(12 * (target - current))

\* current += (target - current) * 0.1
Advance(current, target) == current + TimesTenth(target - current)

AdvanceRecord(r) ==
    [r EXCEPT !.currentX = Advance(r.currentX, r.targetX),
              !.currentY = Advance(r.currentY, r.targetY)]

\* mutant: a frame forgets the records that have reached their target
AdvanceAllDropsArrived(cache) ==
    [id \in {k \in DOMAIN cache :
                cache[k].currentX # cache[k].targetX
                   \/ cache[k].currentY # cache[k].targetY}
        |-> AdvanceRecord(cache[id])]

AdvanceAll(cache) == [id \in DOMAIN cache |-> AdvanceRecord(cache[id])]

\* -------------------------------------------------------------- hit-tester

CRITTER_CLICK_TOLERANCE == 6

\* mutant: the hit-tester measures to the left edge of the tile
critterCanvasXFromEdge(current, view) ==
    (2 * current - (2 * view.x - view.w) * Res) * tileWidth(view)

\* 2 * Res * ((current - startX) * tileWidth + tileWidth / 2), with
\* startX = view.x - view.w / 2 and current in position units
critterCanvasX(current, view) ==
    (2 * current - (2 * view.x - view.w) * Res) * tileWidth(view)
        + tileWidth(view) * Res

critterCanvasY(current, view) ==
    (2 * current - (2 * view.y - view.h) * Res) * tileHeight(view)
        + tileHeight(view) * Res


\* mutant: the hit-tester measures from the target, not the current position
Distance2ByTarget(r, view, pointer) ==
    LET dx == critterCanvasX(r.targetX, view) - Scaled(pointer[1])
        dy == critterCanvasY(r.targetY, view) - Scaled(pointer[2])
    IN  dx * dx + dy * dy

\* the square of the scaled surface distance between a record and the pointer
\* (Math.sqrt is increasing, so distances compare as their squares do)
Distance2(r, view, pointer) ==
    LET dx == critterCanvasX(r.currentX, view) - Scaled(pointer[1])
        dy == critterCanvasY(r.currentY, view) - Scaled(pointer[2])
    IN  dx * dx + dy * dy

\* distance < CRITTER_DRAW_RADIUS + CRITTER_CLICK_TOLERANCE
WithinReach(d2) ==
    LET reach == Scaled(CRITTER_DRAW_RADIUS + CRITTER_CLICK_TOLERANCE)
    IN  d2 < reach * reach

\* mutant: a later entity at the same distance replaces the candidate
ScanStepLast(best, id, cache, view, pointer) ==
    LET d2 == Distance2(cache[id], view, pointer)
    IN  IF WithinReach(d2) /\ (best = << >> \/ d2 <= best[2])
        THEN <<id, d2>>
        ELSE best

\* one iteration of the scan: best is << >> (minDistance = Infinity) or
\* << id, distance2 >>
ScanStep(best, id, cache, view, pointer) ==
    LET d2 == Distance2(cache[id], view, pointer)
    IN  IF WithinReach(d2) /\ (best = << >> \/ d2 < best[2])
        THEN <<id, d2>>
        ELSE best

Least(S) == CHOOSE m \in S : \A n \in S : m <= n

\* for (const id in critterDisplayData): integer keys in ascending order
RECURSIVE Scan(_, _, _, _, _)
Scan(best, ids, cache, view, pointer) ==
    IF ids = {} THEN best
    ELSE LET id == Least(ids)
         IN  Scan(ScanStep(best, id, cache, view, pointer),
                  ids \ {id}, cache, view, pointer)

\* closestCritter of handleCanvasClick: << >> or << snapshot >>
ClosestCritter(cache, view, pointer) ==
    LET best == Scan(<< >>, DOMAIN cache, cache, view, pointer)
    IN  IF best = << >> THEN << >> ELSE <<cache[best[1]].critter>>

\* ------------------------------------------------------------------ panels

LogEmpty == [kind |-> "empty", id |-> 0]
LogFailed == [kind |-> "failed", id |-> 0]
LogNone == [kind |-> "none", id |-> 0]
LogError == [kind |-> "error", id |-> 0]
LogOf(id) == [kind |-> "log", id |-> id]

\* the event-log panel after updateStatsPanel ran for selection sel
StatsPanelLog(sel, log) == IF sel = << >> THEN LogEmpty ELSE log

\* updateStatsPanel throws a TypeError for the selection sel: toFixed is
\* called on a field that is undefined
PanelThrows(sel) == sel # << >> /\ sel[1].health = << >>

\* updateStatsPanel followed by fetchAndDisplayEvents, for the selection sel.
\* When updateStatsPanel throws, the portrait is already set, the template of
\* the detail panel is not assigned and fetchAndDisplayEvents is not reached.
ShowSelection(sel) ==
    IF PanelThrows(sel)
    THEN /\ imageContainer' = <<sel[1].id>>
         /\ UNCHANGED <<statsContent, eventLogContainer, eventsPending>>
    ELSE /\ statsContent' = sel
         /\ imageContainer' = IF sel = << >> THEN << >> ELSE <<sel[1].id>>
         /\ eventLogContainer' = StatsPanelLog(sel, eventLogContainer)
         /\ eventsPending' = IF sel = << >> THEN eventsPending
                             ELSE eventsPending \cup {sel[1].id}

\* --------------------------------------------------------------- requests

\* a fetch in flight; overtaken is history: the response of a poll issued
\* later has been applied already
Request(kind, view) == [kind |-> kind, view |-> view, overtaken |-> FALSE]

\* history: the polls left in flight that were issued before the one at i,
\* whose response is applied now, are marked
Overtake(requests, i) ==
    [j \in 1..Len(requests) |->
        IF j < i /\ requests[j].kind = "live"
        THEN [requests[j] EXCEPT !.overtaken = TRUE]
        ELSE requests[j]]

RemoveAt(s, i) == SubSeq(s, 1, i - 1) \o SubSeq(s, i + 1, Len(s))

\* ------------------------------------------------------------------- Init

Init ==
    /\ currentTerrainData = << >>
    /\ currentView \in Views
    /\ critterDisplayData = EmptyCache
    /\ selectedCritter = << >>
    /\ statsContent = << >>
    /\ imageContainer = << >>
    /\ eventLogContainer = LogEmpty
    /\ inflight = << >>
    /\ eventsPending = {}
    /\ rafScheduled = TRUE
    /\ lastOp = "init"
    /\ lastList = << >>
    /\ lastClick = << >>
    /\ frames = 0
    /\ histArgs = << >>
    /\ histogram = << >>
    /\ PagesIdle

\* ---------------------------------------------------------- manual update

\* handleManualUpdate up to its first await: the view is read from the
\* input fields and the terrain of that view is requested
ManualUpdateStart(v) ==
    /\ Len(inflight) < MaxInFlight
    /\ currentView' = v
    /\ inflight' = Append(inflight, Request("manualTerrain", v))
    /\ lastOp' = "manualStart"
    /\ UNCHANGED <<currentTerrainData, critterDisplayData, selVars,
                   rafScheduled,
                   lastList, lastClick, frames, histVars, pageVars>>

\* fetchTerrain resolves: the snapshot is replaced, the terrain is drawn and
\* the entities of the current view are requested
ManualTerrainOk(i) ==
    /\ i \in 1..Len(inflight)
    /\ inflight[i].kind = "manualTerrain"
    /\ currentTerrainData' = <<inflight[i].view>>
    /\ inflight' = Append(RemoveAt(inflight, i),
                          Request("manualCritters", currentView))
    /\ lastOp' = "terrainOk"
    /\ UNCHANGED <<currentView, critterDisplayData, selVars, rafScheduled,
                   lastList, lastClick, frames, histVars, pageVars>>

\* mutant: a failed terrain fetch drops the snapshot
ManualTerrainFailClears(i) ==
    /\ i \in 1..Len(inflight)
    /\ inflight[i].kind = "manualTerrain"
    /\ currentTerrainData' = << >>
    /\ inflight' = RemoveAt(inflight, i)
    /\ lastOp' = "terrainFail"
    /\ UNCHANGED <<currentView, critterDisplayData, selVars, rafScheduled,
                   lastList, lastClick, frames, histVars, pageVars>>

\* fetchTerrain throws: the catch clause logs the error
ManualTerrainFail(i) ==
    /\ i \in 1..Len(inflight)
    /\ inflight[i].kind = "manualTerrain"
    /\ inflight' = RemoveAt(inflight, i)
    /\ lastOp' = "terrainFail"
    /\ UNCHANGED <<viewVars, critterDisplayData, selVars, rafScheduled,
                   lastList, lastClick, frames, histVars, pageVars>>

\* fetchCritters of a manual update resolves: the cache is rebuilt
ManualCrittersOk(i, list) ==
    /\ i \in 1..Len(inflight)
    /\ inflight[i].kind = "manualCritters"
    /\ critterDisplayData' = RebuildManual(list)
    /\ inflight' = RemoveAt(inflight, i)
    /\ lastOp' = "manualOk"
    /\ lastList' = <<list>>
    /\ UNCHANGED <<viewVars, selVars, rafScheduled, lastClick, frames, histVars, pageVars>>

ManualCrittersFail(i) ==
    /\ i \in 1..Len(inflight)
    /\ inflight[i].kind = "manualCritters"
    /\ inflight' = RemoveAt(inflight, i)
    /\ lastOp' = "manualFail"
    /\ UNCHANGED <<viewVars, critterDisplayData, selVars, rafScheduled,
                   lastList, lastClick, frames, histVars, pageVars>>

\* ------------------------------------------------------------ live update

\* mutant: a poll recentres the viewport on the other view
LiveUpdateStartRecentres ==
    /\ currentTerrainData # << >>
    /\ Len(inflight) < MaxInFlight
    /\ currentView' = CHOOSE v \in Views : v # currentView
    /\ inflight' = Append(inflight, Request("live", currentView'))
    /\ lastOp' = "liveStart"
    /\ UNCHANGED <<currentTerrainData, critterDisplayData, selVars,
                   rafScheduled, lastList, lastClick, frames, histVars, pageVars>>

\* handleLiveUpdate, fired by setInterval, up to its await
LiveUpdateStart ==
    /\ currentTerrainData # << >>
    /\ Len(inflight) < MaxInFlight
    /\ inflight' = Append(inflight, Request("live", currentView))
    /\ lastOp' = "liveStart"
    /\ UNCHANGED <<viewVars, critterDisplayData, selVars, rafScheduled,
                   lastList, lastClick, frames, histVars, pageVars>>

\* history: how a successful live update follows the step before it
LiveOkName(list) ==
    IF lastOp = "manualOk" THEN "liveAfterManual"
    ELSE IF lastOp \in {"liveOk", "liveAgain", "liveAfterManual", "liveStale"}
            /\ lastList = <<list>>
         THEN "liveAgain"
         ELSE "liveOk"

\* history: the name of a successful live update; "liveStale" is one whose
\* poll was issued before a poll applied earlier
AppliedName(request, list) ==
    IF request.overtaken /\ LiveOkName(list) = "liveOk"
    THEN "liveStale"
    ELSE LiveOkName(list)

\* mutant: the response of a poll overtaken by a later one is dropped
LiveUpdateOkInOrder(i, list) ==
    /\ i \in 1..Len(inflight)
    /\ inflight[i].kind = "live"
    /\ critterDisplayData' =
           IF inflight[i].overtaken THEN critterDisplayData
           ELSE ReconcileLive(critterDisplayData, list)
    /\ inflight' = RemoveAt(Overtake(inflight, i), i)
    /\ lastOp' = AppliedName(inflight[i], list)
    /\ lastList' = <<list>>
    /\ UNCHANGED <<viewVars, selVars, rafScheduled, lastClick, frames, histVars, pageVars>>

\* the fetch resolves: the cache is reconciled with the fetched list
LiveUpdateOk(i, list) ==
    /\ i \in 1..Len(inflight)
    /\ inflight[i].kind = "live"
    /\ critterDisplayData' = ReconcileLive(critterDisplayData, list)
    /\ inflight' = RemoveAt(Overtake(inflight, i), i)
    /\ lastOp' = AppliedName(inflight[i], list)
    /\ lastList' = <<list>>
    /\ UNCHANGED <<viewVars, selVars, rafScheduled, lastClick, frames, histVars, pageVars>>

\* mutant: a failed fetch clears the display
LiveUpdateFailClears(i) ==
    /\ i \in 1..Len(inflight)
    /\ inflight[i].kind = "live"
    /\ critterDisplayData' = EmptyCache
    /\ inflight' = RemoveAt(inflight, i)
    /\ lastOp' = "liveFail"
    /\ UNCHANGED <<viewVars, selVars, rafScheduled,
                   lastList, lastClick, frames, histVars, pageVars>>

\* mutant: the handler of a failed poll fetches again at once
LiveUpdateFailRetries(i) ==
    /\ i \in 1..Len(inflight)
    /\ inflight[i].kind = "live"
    /\ inflight' = Append(RemoveAt(inflight, i), Request("live", currentView))
    /\ lastOp' = "liveFail"
    /\ UNCHANGED <<viewVars, critterDisplayData, selVars, rafScheduled,
                   lastList, lastClick, frames, histVars, pageVars>>

\* the fetch rejects or answers non-ok: the catch clause logs the error
LiveUpdateFail(i) ==
    /\ i \in 1..Len(inflight)
    /\ inflight[i].kind = "live"
    /\ inflight' = RemoveAt(inflight, i)
    /\ lastOp' = "liveFail"
    /\ UNCHANGED <<viewVars, critterDisplayData, selVars, rafScheduled,
                   lastList, lastClick, frames, histVars, pageVars>>

\* ------------------------------------------------------------ render loop

\* mutant: the frame leaves the selection as the click set it
ResyncKeeps(sel, cache) == sel

\* the selection after the frame's "update live stats" block
Resync(sel, cache) ==
    IF sel # << >> /\ sel[1].id \in DOMAIN cache
    THEN <<cache[sel[1].id].critter>>
    ELSE sel

\* the frame reaches requestAnimationFrame unless updateStatsPanel, called
\* for the re-derived selection, throws: animationLoop has no try/catch
FrameCompletes(sel, cache) ==
    ~(/\ sel # << >>
      /\ sel[1].id \in DOMAIN cache
      /\ PanelThrows(Resync(sel, cache)))

\* one frame of animationLoop
RenderFrame ==
    /\ rafScheduled
    /\ critterDisplayData' = AdvanceAll(critterDisplayData)
    /\ selectedCritter' = Resync(selectedCritter, critterDisplayData')
    /\ IF selectedCritter # << >>
          /\ selectedCritter[1].id \in DOMAIN critterDisplayData
       THEN ShowSelection(selectedCritter')
       ELSE UNCHANGED <<panelVars, eventsPending>>
    /\ rafScheduled' = FrameCompletes(selectedCritter, critterDisplayData)
    /\ lastOp' = "frame"
    /\ UNCHANGED <<viewVars, inflight, lastList, lastClick, histVars,
                   bandVars, dashVars, refresh, trainVars, tileArg, fillStyle,
                   linkVars>>

AnimationFrame == RenderFrame /\ UNCHANGED <<frames, drawn>>

\* ------------------------------------------------------------------ click

\* history: whether a click hit, missed, or missed and cleared a selection
ClickName(closest) ==
    IF closest # << >> THEN "clickHit"
    ELSE IF selectedCritter # << >> THEN "clickClear" ELSE "clickMiss"

\* mutant: a click that hits nothing leaves the selection alone
CanvasClickKeeps(pointer) ==
    /\ currentTerrainData # << >>
    /\ selectedCritter' =
           IF ClosestCritter(critterDisplayData, currentView, pointer) = << >>
           THEN selectedCritter
           ELSE ClosestCritter(critterDisplayData, currentView, pointer)
    /\ ShowSelection(selectedCritter')
    /\ lastOp' = ClickName(
           ClosestCritter(critterDisplayData, currentView, pointer))
    /\ lastClick' = <<pointer>>
    /\ UNCHANGED <<viewVars, critterDisplayData, inflight, rafScheduled,
                   lastList, frames, histVars, pageVars>>

\* handleCanvasClick with the terrain loaded
CanvasClick(pointer) ==
    /\ currentTerrainData # << >>
    /\ selectedCritter' =
           ClosestCritter(critterDisplayData, currentView, pointer)
    /\ ShowSelection(selectedCritter')
    /\ lastOp' = ClickName(selectedCritter')
    /\ lastClick' = <<pointer>>
    /\ UNCHANGED <<viewVars, critterDisplayData, inflight, rafScheduled,
                   lastList, frames, histVars, pageVars>>

\* -------------------------------------------------------------- event log

\* what the panel shows after the response of an event-log fetch for id
EventOutcomes(id) == {LogFailed, LogNone, LogError, LogOf(id)}

\* a response of fetchAndDisplayEvents arrives; more fetches for the same
\* id may still be in flight (more = TRUE)
EventsResponse(id, shown, more) ==
    /\ id \in eventsPending
    /\ shown \in EventOutcomes(id)
    /\ eventLogContainer' = shown
    /\ eventsPending' = IF more THEN eventsPending ELSE eventsPending \ {id}
    /\ lastOp' = "events"
    /\ UNCHANGED <<viewVars, critterDisplayData, selectedCritter,
                   statsContent, imageContainer, inflight, rafScheduled,
                   lastList, lastClick, frames, histVars, pageVars>>

\* ------------------------------------------------------------------- Next

\* viewport synchronisation: every interleaving of manual updates, live
\* polls, their responses and render frames
Next ==
    \/ \E v \in Views : ManualUpdateStart(v)
    \/ \E i \in 1..MaxInFlight : ManualTerrainOk(i)
    \/ \E i \in 1..MaxInFlight : ManualTerrainFail(i)
    \/ \E i \in 1..MaxInFlight, list \in CritterLists : ManualCrittersOk(i, list)
    \/ \E i \in 1..MaxInFlight : ManualCrittersFail(i)
    \/ LiveUpdateStart
    \/ \E i \in 1..MaxInFlight, list \in CritterLists : LiveUpdateOk(i, list)
    \/ \E i \in 1..MaxInFlight : LiveUpdateFail(i)
    \/ AnimationFrame

Spec == Init /\ [][Next]_vars

\* ----------------------------------------------------- the easing alone

\* the farthest coordinate of SpecAnim
AnimRange == 30
\* frames after which SpecAnim expects every record to have arrived
FrameBound == 25
\* distance, in position units, below which the rounded advance is zero
Eps == 4

MaxFrames == FrameBound + 2

AnimCoords == {0 - AnimRange, 0 - 7, 0, 4, AnimRange}

\* a cache of one record, observed at any position while easing to any target
AnimCaches ==
    {[id \in {1} |->
        [currentX |-> cx, currentY |-> cy, targetX |-> tx, targetY |-> ty,
         critter |-> [id |-> 1, x |-> tx, y |-> ty, health |-> <<100>>]]] :
        cx \in AnimCoords, cy \in AnimCoords,
        tx \in AnimCoords, ty \in AnimCoords}

InitAnim ==
    /\ currentView \in Views
    /\ currentTerrainData = <<currentView>>
    /\ critterDisplayData \in AnimCaches
    /\ selectedCritter = << >>
    /\ statsContent = << >>
    /\ imageContainer = << >>
    /\ eventLogContainer = LogEmpty
    /\ inflight = << >>
    /\ eventsPending = {}
    /\ rafScheduled = TRUE
    /\ lastOp = "init"
    /\ lastList = << >>
    /\ lastClick = << >>
    /\ frames = 0
    /\ histArgs = << >>
    /\ histogram = << >>
    /\ PagesIdle

\* a frame, counted up to MaxFrames
CountedFrame ==
    /\ RenderFrame
    /\ frames' = IF frames < MaxFrames THEN frames + 1 ELSE frames
    /\ UNCHANGED drawn

\* render frames only: no reconciliation changes a target.  The browser runs
\* a scheduled frame, hence the fairness.
SpecAnim == InitAnim /\ [][CountedFrame]_vars /\ WF_vars(CountedFrame)

\* ------------------------------------------------------ the hit-tester alone

HitCoords == {0, 1, 2}

HitIds == {1, 2}

\* caches of records for HitIds anywhere on HitCoords, each easing to the
\* position of its snapshot
HitRecords(id) ==
    {[currentX |-> cx, currentY |-> cy, targetX |-> p[1], targetY |-> p[2],
      critter |-> [id |-> id, x |-> p[1], y |-> p[2], health |-> <<100>>]] :
        cx \in HitCoords, cy \in HitCoords, p \in Points}

HitCaches ==
    UNION {{c \in [S -> UNION {HitRecords(id) : id \in S}] :
               \A id \in S : c[id].critter.id = id} : S \in SUBSET HitIds}

HitPointers == {<<30, 30>>, <<33, 30>>, <<36, 33>>, <<39, 39>>, <<60, 60>>,
                <<15, 15>>, <<17, 16>>, <<18, 18>>}

InitHit ==
    /\ currentView \in Views
    /\ currentTerrainData = <<currentView>>
    /\ critterDisplayData \in HitCaches
    /\ selectedCritter = << >>
    /\ statsContent = << >>
    /\ imageContainer = << >>
    /\ eventLogContainer = LogEmpty
    /\ inflight = << >>
    /\ eventsPending = {}
    /\ rafScheduled = TRUE
    /\ lastOp = "init"
    /\ lastList = << >>
    /\ lastClick = << >>
    /\ frames = 0
    /\ histArgs = << >>
    /\ histogram = << >>
    /\ PagesIdle

NextHit ==
    \/ \E p \in HitPointers : CanvasClick(p)
    \/ \E id \in Ids, more \in BOOLEAN :
          \E shown \in EventOutcomes(id) : EventsResponse(id, shown, more)

\* clicks on a loaded view and the event-log responses they ask for, for
\* every cache of HitCaches
SpecHit == InitHit /\ [][NextHit]_vars

\* ------------------------------------------------------ claims C1 .. C5, C8

LiveOkNames == {"liveOk", "liveAgain", "liveAfterManual", "liveStale"}

\* the entry of list for id
EntryOf(list, id) == list[CHOOSE k \in 1..Len(list) : list[k].id = id]

\* C1: after any sequence of live updates the ids held in the cache are
\* exactly the distinct ids of the fetch result applied last, and the size of
\* the cache is their number.
C1_CacheIdsAreLastFetch ==
    lastList # << >> =>
        /\ DOMAIN critterDisplayData = IdsOf(lastList[1])
        /\ Cardinality(DOMAIN critterDisplayData)
              = Cardinality(IdsOf(lastList[1]))

\* a live update has just replaced one id of a two-record cache by another:
\* the record that stayed still eases towards a new target
C1_Witness ==
    /\ lastOp = "liveOk"
    /\ Cardinality(DOMAIN critterDisplayData) = 2
    /\ \E id \in DOMAIN critterDisplayData :
          critterDisplayData[id].currentX # critterDisplayData[id].targetX

\* C2: a live reconciliation leaves currentX/currentY of every id it already
\* held as they were and sets its target and snapshot from the fetched entry;
\* an id it did not hold gets a record with current = target = the position
\* of its snapshot.
C2_LiveKeepsCurrentSpawnsNew ==
    [][lastOp' \in LiveOkNames =>
         \A k \in 1..Len(lastList'[1]) :
            LET c == lastList'[1][k]
                after == critterDisplayData'[c.id]
            IN  /\ c.id \in DOMAIN critterDisplayData'
                /\ after.targetX = c.x
                /\ after.targetY = c.y
                /\ after.critter = c
                /\ IF c.id \in DOMAIN critterDisplayData
                   THEN /\ after.currentX = critterDisplayData[c.id].currentX
                        /\ after.currentY = critterDisplayData[c.id].currentY
                   ELSE /\ after.currentX = c.x
                        /\ after.currentY = c.y]_vars

\* after a live update the cache holds a record that keeps a current
\* position away from its new target, next to one spawned on its target
C2_Witness ==
    /\ lastOp \in LiveOkNames
    /\ \E id, other \in DOMAIN critterDisplayData :
          /\ critterDisplayData[id].currentX # critterDisplayData[id].targetX
          /\ critterDisplayData[id].currentY # critterDisplayData[id].targetY
          /\ critterDisplayData[other].currentX
                = critterDisplayData[other].critter.x
          /\ critterDisplayData[other].currentY
                = critterDisplayData[other].critter.y

\* C3: applying the list that the step before applied, with no frame in
\* between, changes nothing in the cache: no target, no snapshot, no current
\* position.
C3_LiveIdempotent ==
    [][lastOp' = "liveAgain" => critterDisplayData' = critterDisplayData]_vars

\* the same list was applied twice in a row to a record still easing
C3_Witness ==
    /\ lastOp = "liveAgain"
    /\ \E id \in DOMAIN critterDisplayData :
          critterDisplayData[id].currentX # critterDisplayData[id].targetX

\* C4: a failed entity fetch of a live update leaves the cache exactly as it
\* was, only logs, and the render loop stays scheduled.
C4_LiveFailureKeepsCache ==
    [][lastOp' = "liveFail" =>
         /\ critterDisplayData' = critterDisplayData
         /\ lastList' = lastList
         /\ rafScheduled']_vars

\* a live fetch failed while the cache held a record still easing
C4_Witness ==
    /\ lastOp = "liveFail"
    /\ rafScheduled
    /\ \E id \in DOMAIN critterDisplayData :
          critterDisplayData[id].currentX # critterDisplayData[id].targetX

\* the cache holds the list applied last, whole: its ids, and for each its
\* entry as snapshot and target
Whole(cache, applied) ==
    IF applied = << >> THEN cache = EmptyCache
    ELSE /\ DOMAIN cache = IdsOf(applied[1])
         /\ \A id \in DOMAIN cache :
               /\ cache[id].critter = EntryOf(applied[1], id)
               /\ cache[id].targetX = cache[id].critter.x
               /\ cache[id].targetY = cache[id].critter.y

\* C5: a reconciliation is one step for the render loop: the cache a frame
\* starts from is never half-updated, it holds the list applied last whole,
\* in every interleaving of frames with poll and manual-update callbacks.
C5_FrameSeesWholeCache ==
    [][lastOp' = "frame" => Whole(critterDisplayData, lastList)]_vars

\* a frame ran on a two-record cache while another fetch was in flight
C5_Witness ==
    /\ lastOp = "frame"
    /\ Cardinality(DOMAIN critterDisplayData) = 2
    /\ Len(inflight) > 0
    /\ \E id \in DOMAIN critterDisplayData :
          critterDisplayData[id].currentX \notin {0, 5}

\* C8: a successful manual update leaves exactly one record per fetched
\* entity, each with current = target = the position of its snapshot, whatever
\* the cache held; the live update that follows it keeps the current position
\* of the ids that stay, drops the others and spawns new ids on their
\* reported position.
C8_ManualThenLive ==
    [][/\ lastOp' = "manualOk" =>
            /\ DOMAIN critterDisplayData' = IdsOf(lastList'[1])
            /\ \A id \in DOMAIN critterDisplayData' :
                  critterDisplayData'[id]
                     = NewRecord(EntryOf(lastList'[1], id))
       /\ lastOp' = "liveAfterManual" =>
            /\ DOMAIN critterDisplayData' = IdsOf(lastList'[1])
            /\ \A id \in DOMAIN critterDisplayData' :
                  LET c == EntryOf(lastList'[1], id)
                      after == critterDisplayData'[id]
                  IN  IF id \in DOMAIN critterDisplayData
                      THEN /\ after.currentX = critterDisplayData[id].currentX
                           /\ after.currentY = critterDisplayData[id].currentY
                           /\ after.currentX = EntryOf(lastList[1], id).x
                           /\ after.currentY = EntryOf(lastList[1], id).y
                           /\ after.targetX = c.x
                           /\ after.targetY = c.y
                           /\ after.critter = c
                      ELSE after = NewRecord(c)]_vars

\* the live update right after a manual update kept a record on the position
\* the manual update gave it, with a new target
C8_Witness ==
    /\ lastOp = "liveAfterManual"
    /\ Cardinality(DOMAIN critterDisplayData) = 2
    /\ \E id \in DOMAIN critterDisplayData :
          critterDisplayData[id].currentX # critterDisplayData[id].targetX

\* ------------------------------------------------------------ claims C6, C7

\* C6: in every frame, for every record and each axis, the advance
\* current += (target - current) * 0.1 never increases |target - current|,
\* never moves current past target, and leaves current = target alone.
C6_AdvanceNeverOvershoots ==
    [][lastOp' = "frame" =>
         \A id \in DOMAIN critterDisplayData :
            LET before == critterDisplayData[id]
                after == critterDisplayData'[id]
            IN  /\ Abs(before.targetX - after.currentX)
                      <= Abs(before.targetX - before.currentX)
                /\ Abs(before.targetY - after.currentY)
                      <= Abs(before.targetY - before.currentY)
                /\ (before.targetX - before.currentX)
                      * (before.targetX - after.currentX) >= 0
                /\ (before.targetY - before.currentY)
                      * (before.targetY - after.currentY) >= 0
                /\ before.currentX = before.targetX
                      => after.currentX = before.currentX
                /\ before.currentY = before.targetY
                      => after.currentY = before.currentY]_vars

\* after its first frame a record has moved on one axis, is short of its
\* target there, and rests on its target on the other axis
C6_Witness ==
    /\ lastOp = "frame"
    /\ frames = 1
    /\ \E id \in DOMAIN critterDisplayData :
          /\ critterDisplayData[id].currentX \notin AnimCoords
          /\ critterDisplayData[id].currentX # critterDisplayData[id].targetX
          /\ critterDisplayData[id].currentY = critterDisplayData[id].targetY

\* every record is within eps of its target on both axes
WithinEps(eps) ==
    \A id \in DOMAIN critterDisplayData :
       /\ Abs(critterDisplayData[id].targetX - critterDisplayData[id].currentX)
             <= eps
       /\ Abs(critterDisplayData[id].targetY - critterDisplayData[id].currentY)
             <= eps

ClickNames == {"clickHit", "clickMiss", "clickClear"}

\* the square of the scaled distance from the pointer to the centre of the
\* marker the render loop draws for a record
MarkerDistance2(r, view, pointer) ==
    (MarkerX(r, view) - Scaled(pointer[1]))
        * (MarkerX(r, view) - Scaled(pointer[1]))
    + (MarkerY(r, view) - Scaled(pointer[2]))
        * (MarkerY(r, view) - Scaled(pointer[2]))

\* the ids whose marker is strictly nearer to the pointer than
\* CRITTER_DRAW_RADIUS + CRITTER_CLICK_TOLERANCE
InReach(cache, view, pointer) ==
    {id \in DOMAIN cache :
        MarkerDistance2(cache[id], view, pointer)
           < Scaled(CRITTER_DRAW_RADIUS + CRITTER_CLICK_TOLERANCE)
               * Scaled(CRITTER_DRAW_RADIUS + CRITTER_CLICK_TOLERANCE)}

\* C9: a click with the terrain loaded selects an entity whose marker, drawn
\* at its current position, is nearest to the pointer among those strictly
\* within CRITTER_DRAW_RADIUS + CRITTER_CLICK_TOLERANCE, and nothing when
\* there is none (so a pointer on a marker's centre selects that entity, and
\* of two entities in reach the nearer one).
C9_ClickSelectsNearest ==
    [][lastOp' \in ClickNames =>
         LET reach == InReach(critterDisplayData, currentView, lastClick'[1])
         IN  IF reach = {}
             THEN selectedCritter' = << >>
             ELSE \E id \in reach :
                     /\ selectedCritter' = <<critterDisplayData[id].critter>>
                     /\ \A other \in reach :
                           MarkerDistance2(critterDisplayData[id],
                                           currentView, lastClick'[1])
                              <= MarkerDistance2(critterDisplayData[other],
                                                 currentView, lastClick'[1])
        ]_vars

\* a click selected the nearer of two entities in reach; measured from its
\* target, the selected entity would be out of reach
C9_Witness ==
    /\ lastOp = "clickHit"
    /\ \E id, other \in InReach(critterDisplayData, currentView, lastClick[1]) :
          /\ selectedCritter = <<critterDisplayData[id].critter>>
          /\ MarkerDistance2(critterDisplayData[id], currentView, lastClick[1])
                < MarkerDistance2(critterDisplayData[other], currentView,
                                  lastClick[1])
          /\ ~WithinReach(Distance2ByTarget(critterDisplayData[id],
                                            currentView, lastClick[1]))

\* C10: the selection is one entity or none, and a click that matches no
\* entity clears it: selectedCritter is null and the detail panel, the
\* portrait and the event log are back to their empty state.
C10_MissClearsSelection ==
    [][/\ Len(selectedCritter') <= 1
       /\ (lastOp' \in ClickNames
             /\ InReach(critterDisplayData, currentView, lastClick'[1]) = {})
          => /\ selectedCritter' = << >>
             /\ statsContent' = << >>
             /\ imageContainer' = << >>
             /\ eventLogContainer' = LogEmpty]_vars

\* a click away from every entity has cleared a selection: the panels are
\* empty while an event-log fetch of the entity is still in flight
C10_Witness ==
    /\ lastOp = "clickClear"
    /\ critterDisplayData # EmptyCache
    /\ selectedCritter = << >>
    /\ statsContent = << >>
    /\ imageContainer = << >>
    /\ eventLogContainer = LogEmpty
    /\ eventsPending # {}

\* ------------------------------------------- the selection while the view syncs

\* fetches of the viewport handlers in flight at once in SpecSelect
MaxSelectInFlight == 1

SelectIds == {1, 2}

\* the responses of the entities endpoint in SpecSelect: entities of
\* SelectIds, listed by id
SelectLists ==
    {l \in CritterLists :
        /\ IdsOf(l) \subseteq SelectIds
        /\ \A j, k \in 1..Len(l) : j < k => l[j].id < l[k].id}

\* clicks on the marker of an entity at <<0, 5>> in either view, and a click
\* on no marker
SelectPointers == {<<30, 60>>, <<15, 30>>, <<45, 45>>}

\* the viewer after its initial load: the terrain of the view is drawn and
\* the cache holds the entities fetched for it
InitSelect ==
    /\ currentView \in Views
    /\ currentTerrainData = <<currentView>>
    /\ \E list \in SelectLists :
          /\ critterDisplayData = RebuildManual(list)
          /\ lastList = <<list>>
    /\ selectedCritter = << >>
    /\ statsContent = << >>
    /\ imageContainer = << >>
    /\ eventLogContainer = LogEmpty
    /\ inflight = << >>
    /\ eventsPending = {}
    /\ rafScheduled = TRUE
    /\ lastOp = "manualOk"
    /\ lastClick = << >>
    /\ frames = 0
    /\ histArgs = << >>
    /\ histogram = << >>
    /\ PagesIdle

\* handleManualUpdate, started while no fetch of a viewport handler is pending
SelectManualStart(v) ==
    /\ Len(inflight) < MaxSelectInFlight
    /\ ManualUpdateStart(v)

\* handleLiveUpdate, started while no fetch of a viewport handler is pending
SelectLiveStart ==
    /\ Len(inflight) < MaxSelectInFlight
    /\ LiveUpdateStart

NextSelect ==
    \/ \E v \in Views : SelectManualStart(v)
    \/ \E i \in 1..MaxSelectInFlight : ManualTerrainOk(i)
    \/ \E i \in 1..MaxSelectInFlight : ManualTerrainFail(i)
    \/ \E i \in 1..MaxSelectInFlight, list \in SelectLists :
          ManualCrittersOk(i, list)
    \/ \E i \in 1..MaxSelectInFlight : ManualCrittersFail(i)
    \/ SelectLiveStart
    \/ \E i \in 1..MaxSelectInFlight, list \in SelectLists :
          LiveUpdateOk(i, list)
    \/ \E i \in 1..MaxSelectInFlight : LiveUpdateFail(i)
    \/ AnimationFrame
    \/ \E p \in SelectPointers : CanvasClick(p)
    \/ \E id \in SelectIds, more \in BOOLEAN :
          EventsResponse(id, LogOf(id), more)

\* clicks, render frames, live polls and manual updates on a loaded view
SpecSelect == InitSelect /\ [][NextSelect]_vars

\* ----------------------------------------------- responses with a field missing

\* snapshots of SelectIds, whole, or with the numeric fields left out
SelectSnapshots == {s \in Snapshots : s.id \in SelectIds}

FaultSnapshots ==
    SelectSnapshots \cup {[s EXCEPT !.health = << >>] : s \in SelectSnapshots}

\* responses of the entities endpoint in SpecFault, listed by id
FaultLists ==
    {l \in UNION {[1..n -> FaultSnapshots] : n \in 0..MaxList} :
        \A j, k \in 1..Len(l) : j < k => l[j].id < l[k].id}

InitFault ==
    /\ currentView \in Views
    /\ currentTerrainData = <<currentView>>
    /\ \E list \in FaultLists :
          /\ critterDisplayData = RebuildManual(list)
          /\ lastList = <<list>>
    /\ selectedCritter = << >>
    /\ statsContent = << >>
    /\ imageContainer = << >>
    /\ eventLogContainer = LogEmpty
    /\ inflight = << >>
    /\ eventsPending = {}
    /\ rafScheduled = TRUE
    /\ lastOp = "manualOk"
    /\ lastClick = << >>
    /\ frames = 0
    /\ histArgs = << >>
    /\ histogram = << >>
    /\ PagesIdle

NextFault ==
    \/ SelectLiveStart
    \/ \E i \in 1..MaxSelectInFlight, list \in FaultLists :
          LiveUpdateOk(i, list)
    \/ \E i \in 1..MaxSelectInFlight : LiveUpdateFail(i)
    \/ AnimationFrame
    \/ \E p \in SelectPointers : CanvasClick(p)

\* clicks, render frames and live polls on a loaded view, the service being
\* free to leave fields out of a snapshot
SpecFault == InitFault /\ [][NextFault]_vars

\* ------------------------------------------------------- claims C11 .. C16

\* C11 as stated: when the id of the selected entity is no longer in the
\* cache, the next render frame clears the selection and resets the detail
\* panel.
C11_VanishedSelectionCleared ==
    [][(/\ lastOp' = "frame"
        /\ selectedCritter # << >>
        /\ selectedCritter[1].id \notin DOMAIN critterDisplayData)
       => /\ selectedCritter' = << >>
          /\ statsContent' = << >>]_vars

\* a frame has run while the selected id was gone from the cache: the
\* selection and the detail panel still show the entity
C11_StaleSelection ==
    /\ lastOp = "frame"
    /\ selectedCritter # << >>
    /\ selectedCritter[1].id \notin DOMAIN critterDisplayData
    /\ statsContent = selectedCritter

\* C12: a render frame that finds the selected id in the cache sets the
\* selection to the snapshot the cache holds under that id after the frame,
\* and the detail panel shows it: a snapshot replaced by a reconciliation is
\* not selected past the next frame.
C12_SelectionResynced ==
    [][(/\ lastOp' = "frame"
        /\ selectedCritter # << >>
        /\ selectedCritter[1].id \in DOMAIN critterDisplayData)
       => /\ selectedCritter'
               = <<critterDisplayData'[selectedCritter[1].id].critter>>
          /\ statsContent' = selectedCritter']_vars

\* after a frame the selection is the snapshot of a record that a
\* reconciliation has retargeted since it was created
C12_Witness ==
    /\ lastOp = "frame"
    /\ selectedCritter # << >>
    /\ selectedCritter[1].id \in DOMAIN critterDisplayData
    /\ LET r == critterDisplayData[selectedCritter[1].id]
       IN  /\ selectedCritter = <<r.critter>>
           /\ statsContent = <<r.critter>>
           /\ r.currentX # r.targetX
           /\ r.targetX = r.critter.x

\* C13 as stated: the render loop never stops, the next frame is scheduled
\* after every frame, also after one in which refreshing the detail panel
\* throws.
C13_NextFrameScheduled == rafScheduled

\* the selected snapshot lacks a numeric field and the frame that re-derived
\* it has not scheduled the next one
C13_LoopStopped ==
    /\ lastOp = "frame"
    /\ ~rafScheduled
    /\ PanelThrows(selectedCritter)

\* C14 as stated: no render frame issues a network request.
C14_FrameIssuesNoRequest ==
    [][lastOp' = "frame" =>
         /\ eventsPending' = eventsPending
         /\ inflight' = inflight]_vars

\* the handler steps that are not part of handleManualUpdate
OtherNames == {"frame", "liveStart", "liveFail", "events"}
                  \cup LiveOkNames \cup ClickNames

\* C15: the viewport is left as it is by every render frame, live update and
\* click; it changes only when handleManualUpdate reads the input fields.
C15_ViewOnlyManual ==
    [][/\ lastOp' \in OtherNames => currentView' = currentView
       /\ currentView' # currentView => lastOp' = "manualStart"]_vars

\* a manual update has moved the viewport while an entity was selected
C15_Witness ==
    /\ lastOp = "manualStart"
    /\ currentTerrainData # <<currentView>>
    /\ selectedCritter # << >>

\* the terrain fetches in flight
TerrainFetches(requests) ==
    {i \in 1..Len(requests) : requests[i].kind = "manualTerrain"}

\* C16: the terrain snapshot is replaced only by the response of the terrain
\* fetch of a manual update, and then by the whole response; render frames,
\* live updates and clicks leave it alone and start no terrain fetch.
C16_TerrainOnlyManualFetch ==
    [][/\ currentTerrainData' # currentTerrainData =>
            /\ lastOp' = "terrainOk"
            /\ \E i \in TerrainFetches(inflight) :
                  currentTerrainData' = <<inflight[i].view>>
       /\ lastOp' \in OtherNames =>
            /\ currentTerrainData' = currentTerrainData
            /\ Cardinality(TerrainFetches(inflight'))
                  <= Cardinality(TerrainFetches(inflight))]_vars

\* the terrain of a new view has replaced the snapshot while an entity was
\* selected
C16_Witness ==
    /\ lastOp = "terrainOk"
    /\ currentTerrainData = <<currentView>>
    /\ selectedCritter # << >>

\* ------------------------------------ stats.js: the bins of the distributions

\* largest value of a distribution map
MaxValue == 13
\* most entries of a distribution map
MaxEntries == 2
\* largest count of one entry
MaxCount == 2

\* bin widths and upper bounds the charts are drawn with
BinSizes == {0 - 1, 0, 1, 3, 4}
MaxVals == {0, 1, 9, 10}

\* the decimal digits as characters
DigitChars == <<"0", "1", "2", "3", "4", "5", "6", "7", "8", "9">>

\* `${n}` for an integer n >= 0
RECURSIVE Decimal(_)
Decimal(n) ==
    IF n < 10 THEN <<DigitChars[n + 1]>>
    ELSE Append(Decimal(n \div 10), DigitChars[(n % 10) + 1])

\* `${binStart}-${binEnd}`
Label(binStart, binEnd) == Decimal(binStart) \o <<"-">> \o Decimal(binEnd)

\* a distribution as the stats endpoint returns it: an object whose property
\* names are the values and whose property values are their counts
RawDatas ==
    UNION {[{KeyOf(v) : v \in V} -> 1..MaxCount] :
              V \in {W \in SUBSET (0..MaxValue) : Cardinality(W) <= MaxEntries}}

\* mutant: the loop runs while i <= maxVal
LabelsFromInclusive(i, binSize, maxVal) ==
    [k \in 1..((maxVal - i) \div binSize + 1) |->
        Label(i + (k - 1) * binSize, i + k * binSize - 1)]

\* for (let i = 0; i < maxVal; i += binSize) labels.push(...), from i on
RECURSIVE LabelsFrom(_, _, _)
LabelsFrom(i, binSize, maxVal) ==
    IF i < maxVal
    THEN <<Label(i, i + binSize - 1)>>
            \o LabelsFrom(i + binSize, binSize, maxVal)
    ELSE << >>

\* the property names in the order Object.entries lists them: integer keys
\* ascending
FirstKey(keys) ==
    CHOOSE k \in keys : \A other \in keys : ParseInt(k) <= ParseInt(other)

\* mutant: data[binIndex] = count
CountEntriesOverwrites(data, keys, rawData, binSize) ==
    [k \in 1..Len(data) |->
        LET hit == {key \in keys : ParseInt(key) \div binSize = k - 1}
        IN  IF hit = {} THEN 0 ELSE rawData[FirstKey(hit)]]

\* for (const [value, count] of Object.entries(rawData)), over the entries
\* keys that are left
RECURSIVE CountEntries(_, _, _, _)
CountEntries(data, keys, rawData, binSize) ==
    IF keys = {} THEN data
    ELSE LET value == FirstKey(keys)
             binIndex == ParseInt(value) \div binSize
         IN  CountEntries(
                 IF binIndex < Len(data)
                 THEN [data EXCEPT ![binIndex + 1] = @ + rawData[value]]
                 ELSE data,
                 keys \ {value}, rawData, binSize)

NoBins == [labels |-> << >>, data |-> << >>]

\* mutant: a bin width below one is taken as one
createHistogramDataClamps(rawData, binSize, maxVal) ==
    LET width == IF binSize <= 0 THEN 1 ELSE binSize
        labels == LabelsFrom(0, width, maxVal)
    IN  [labels |-> labels,
         data |-> CountEntries([k \in 1..Len(labels) |-> 0],
                               DOMAIN rawData, rawData, width)]

createHistogramData(rawData, binSize, maxVal) ==
    IF binSize <= 0 THEN NoBins
    ELSE LET labels == LabelsFrom(0, binSize, maxVal)
         IN  [labels |-> labels,
              data |-> CountEntries([k \in 1..Len(labels) |-> 0],
                                    DOMAIN rawData, rawData, binSize)]

\* the dashboard is about to bin a distribution
InitHist ==
    /\ currentView \in Views
    /\ currentTerrainData = << >>
    /\ critterDisplayData = EmptyCache
    /\ selectedCritter = << >>
    /\ statsContent = << >>
    /\ imageContainer = << >>
    /\ eventLogContainer = LogEmpty
    /\ inflight = << >>
    /\ eventsPending = {}
    /\ rafScheduled = TRUE
    /\ lastOp = "init"
    /\ lastList = << >>
    /\ lastClick = << >>
    /\ frames = 0
    /\ histArgs \in {<<[rawData |-> r, binSize |-> b, maxVal |-> m]>> :
                        r \in RawDatas, b \in BinSizes, m \in MaxVals}
    /\ histogram = << >>
    /\ PagesIdle

\* the call of createHistogramData
DrawHistogram ==
    /\ histArgs # << >>
    /\ histogram = << >>
    /\ PagesIdle
    /\ histogram' = <<createHistogramData(histArgs[1].rawData,
                                          histArgs[1].binSize,
                                          histArgs[1].maxVal)>>
    /\ lastOp' = "histogram"
    /\ UNCHANGED <<viewVars, critterDisplayData, selVars, inflight,
                   rafScheduled, lastList, lastClick, frames, histArgs,
                   pageVars>>

SpecHist == InitHist /\ [][DrawHistogram]_vars

\* ------------------------------------------------------- claims C17 .. C20

\* ceil(a / b) for a >= 0 and b > 0
Ceil(a, b) == (a + b - 1) \div b

\* the number a sequence of digit characters denotes
RECURSIVE DecimalValue(_)
DecimalValue(chars) ==
    IF chars = << >> THEN 0
    ELSE 10 * DecimalValue(SubSeq(chars, 1, Len(chars) - 1))
            + (CHOOSE d \in 0..9 : DigitChars[d + 1] = chars[Len(chars)])

\* the two numbers a label "lo-hi" reads as
LabelBounds(label) ==
    LET dash == CHOOSE k \in 1..Len(label) : label[k] = "-"
    IN  <<DecimalValue(SubSeq(label, 1, dash - 1)),
          DecimalValue(SubSeq(label, dash + 1, Len(label)))>>

\* the property names of rawData whose value lies in lo..hi
KeysBetween(rawData, lo, hi) ==
    {key \in DOMAIN rawData : lo <= ParseInt(key) /\ ParseInt(key) <= hi}

RECURSIVE SumCounts(_, _)
SumCounts(rawData, keys) ==
    IF keys = {} THEN 0
    ELSE LET key == CHOOSE k \in keys : TRUE
         IN  rawData[key] + SumCounts(rawData, keys \ {key})

RECURSIVE SumSeq(_)
SumSeq(seq) == IF seq = << >> THEN 0 ELSE Head(seq) + SumSeq(Tail(seq))

\* C17: for a bin width above zero the bins are those with lower bounds 0,
\* binSize, 2 * binSize, ... below maxVal, in this order, each labelled
\* "lo-(lo + binSize - 1)"; there are ceil(maxVal / binSize) of them, and
\* labels and data have the same length.
C17_BinsCoverDomain ==
    (histogram # << >> /\ histArgs[1].binSize > 0) =>
        LET binSize == histArgs[1].binSize
            labels == histogram[1].labels
        IN  /\ Len(labels) = Len(histogram[1].data)
            /\ Len(labels) = Ceil(histArgs[1].maxVal, binSize)
            /\ \A k \in 1..Len(labels) :
                  /\ (k - 1) * binSize < histArgs[1].maxVal
                  /\ LabelBounds(labels[k])
                        = <<(k - 1) * binSize, (k - 1) * binSize + binSize - 1>>

\* width 3 and upper bound 10 gave four bins, the last one labelled "9-11"
C17_Witness ==
    /\ histogram # << >>
    /\ histArgs[1].binSize = 3
    /\ histArgs[1].maxVal = 10
    /\ Len(histogram[1].labels) = 4
    /\ histogram[1].labels[4] = <<"9", "-", "1", "1">>

\* C18: the count of every bin is the sum of the counts of the values from
\* its lower bound to its lower bound + binSize - 1, zero when there is none.
C18_BinCountIsSum ==
    (histogram # << >> /\ histArgs[1].binSize > 0) =>
        LET binSize == histArgs[1].binSize
            rawData == histArgs[1].rawData
        IN  \A k \in 1..Len(histogram[1].data) :
               histogram[1].data[k]
                  = SumCounts(rawData,
                              KeysBetween(rawData, (k - 1) * binSize,
                                          (k - 1) * binSize + binSize - 1))

\* two values fell into one bin, which holds the sum of their counts, next
\* to an empty bin
C18_Witness ==
    /\ histogram # << >>
    /\ histArgs[1].binSize = 3
    /\ \E k, e \in 1..Len(histogram[1].data) :
          /\ Cardinality(KeysBetween(histArgs[1].rawData,
                                     (k - 1) * 3, (k - 1) * 3 + 2)) = 2
          /\ histogram[1].data[k] = 3
          /\ histogram[1].data[e] = 0

\* C19 as stated: a value at or above maxVal contributes to no bin, the bin
\* counts add up to the counts of the values in 0 .. maxVal - 1.
C19_ValuesFromBoundDropped ==
    (histogram # << >> /\ histArgs[1].binSize > 0) =>
        SumSeq(histogram[1].data)
           = SumCounts(histArgs[1].rawData,
                       KeysBetween(histArgs[1].rawData, 0,
                                   histArgs[1].maxVal - 1))

\* a value above maxVal was counted in the last bin
C19_CountedAboveBound ==
    /\ histogram # << >>
    /\ histArgs[1].binSize = 3
    /\ histArgs[1].maxVal = 10
    /\ DOMAIN histArgs[1].rawData = {KeyOf(11)}
    /\ histogram[1].data[4] = histArgs[1].rawData[KeyOf(11)]

\* C20: for a bin width of zero or less the call returns no bins: labels and
\* data are empty, whatever the map and the upper bound.
C20_NoBinsForNoWidth ==
    (histogram # << >> /\ histArgs[1].binSize <= 0) =>
        /\ histogram[1].labels = << >>
        /\ histogram[1].data = << >>

\* the call returned no bins for width 0, a map with entries and an upper
\* bound of 10
C20_Witness ==
    /\ histogram # << >>
    /\ histArgs[1].binSize = 0
    /\ histArgs[1].maxVal = 10
    /\ DOMAIN histArgs[1].rawData # {}
    /\ histogram[1].labels = << >>
    /\ histogram[1].data = << >>

\* ---------------------------------------------------------------------------
\* Overlapping polls (handleLiveUpdate under setInterval)
\* ---------------------------------------------------------------------------

\* C29: polls overlap and nothing orders their responses: the response of a
\* poll issued before one that was applied already is applied all the same,
\* on arrival, and the cache then holds that older fetch, each record
\* carrying the snapshot and the targets of the older list.
C29_StaleResponseApplied ==
    [][lastOp' = "liveStale" =>
          /\ Len(inflight') = Len(inflight) - 1
          /\ lastList' # << >>
          /\ DOMAIN critterDisplayData' = IdsOf(lastList'[1])
          /\ \A id \in DOMAIN critterDisplayData' :
                /\ critterDisplayData'[id].critter = EntryOf(lastList'[1], id)
                /\ critterDisplayData'[id].targetX = EntryOf(lastList'[1], id).x
                /\ critterDisplayData'[id].targetY = EntryOf(lastList'[1], id).y]_vars

\* an overtaken poll has just been applied and the cache holds its list
C29_Witness ==
    /\ lastOp = "liveStale"
    /\ lastList # << >>
    /\ lastList[1] # << >>
    /\ DOMAIN critterDisplayData = IdsOf(lastList[1])

\* ---------------------------------------------------------------------------
\* The polling interval (setInterval(handleLiveUpdate, 3000))
\* ---------------------------------------------------------------------------

\* the page with its terrain loaded and the cache built by the first
\* handleManualUpdate
InitPoll ==
    /\ currentView \in Views
    /\ currentTerrainData = <<currentView>>
    /\ \E list \in SelectLists :
          /\ critterDisplayData = RebuildManual(list)
          /\ lastList = <<list>>
    /\ selectedCritter = << >>
    /\ statsContent = << >>
    /\ imageContainer = << >>
    /\ eventLogContainer = LogEmpty
    /\ inflight = << >>
    /\ eventsPending = {}
    /\ rafScheduled = TRUE
    /\ lastOp = "manualOk"
    /\ lastClick = << >>
    /\ frames = 0
    /\ histArgs = << >>
    /\ histogram = << >>
    /\ PagesIdle

\* a poll's fetch resolves with some list
PollAnswered == \E i \in 1..MaxInFlight, list \in SelectLists : LiveUpdateOk(i, list)

NextPoll ==
    \/ LiveUpdateStart
    \/ PollAnswered
    \/ \E i \in 1..MaxInFlight : LiveUpdateFail(i)

\* the interval is never cleared, so its callback keeps running; the server
\* answers a poll again and again
SpecPoll ==
    /\ InitPoll
    /\ [][NextPoll]_vars
    /\ WF_vars(LiveUpdateStart)
    /\ SF_vars(PollAnswered)

\* C25: the interval is the retry: the handler of a failed poll issues no
\* fetch and leaves the cache alone, the interval's callback stays able to
\* start the next poll, and after a failed poll a later poll is applied, the
\* cache then holding the list it fetched.
C25_IntervalIsTheRetry ==
    /\ [][lastOp' = "liveFail" =>
             /\ Len(inflight') = Len(inflight) - 1
             /\ critterDisplayData' = critterDisplayData]_vars
    /\ [](Len(inflight) < MaxInFlight => ENABLED LiveUpdateStart)
    /\ (lastOp = "liveFail") ~>
          (lastOp \in LiveOkNames /\ Whole(critterDisplayData, lastList))

\* a poll has failed, nothing is in flight and the next poll can start
C25_Witness ==
    /\ lastOp = "liveFail"
    /\ inflight = << >>
    /\ ENABLED LiveUpdateStart

\* ---------------------------------------------------------------------------
\* stats.js: the colour of a bar (drawDistributionChart and the
\* backgroundColor callbacks of fetchAndDrawHistoryCharts)
\* ---------------------------------------------------------------------------

\* the viewer page as loaded, none of its handlers having run
ViewerIdle ==
    /\ currentView \in Views
    /\ currentTerrainData = << >>
    /\ critterDisplayData = EmptyCache
    /\ selectedCritter = << >>
    /\ statsContent = << >>
    /\ imageContainer = << >>
    /\ eventLogContainer = LogEmpty
    /\ inflight = << >>
    /\ eventsPending = {}
    /\ rafScheduled = TRUE
    /\ lastOp = "init"
    /\ lastList = << >>
    /\ lastClick = << >>
    /\ frames = 0
    /\ histArgs = << >>
    /\ histogram = << >>

\* lower bounds of the bins and the thresholds the bars are drawn with
BandLowerBounds == {0, 5, 10, 20, 30, 50}
BandThresholds == {10, 30}

\* the labels: "lo-hi" as the binner writes them, and plain "lo"
BinLabels == {Label(lo, lo + 9) : lo \in BandLowerBounds}
PlainLabels == {Decimal(lo) : lo \in BandLowerBounds}

\* the digit a character denotes in the radix, << >> when it is none
HexChars == <<"0", "1", "2", "3", "4", "5", "6", "7", "8", "9",
              "a", "b", "c", "d", "e", "f">>
DigitOf(char, radix) ==
    IF \E d \in 1..radix : HexChars[d] = char
    THEN <<(CHOOSE d \in 1..radix : HexChars[d] = char) - 1>>
    ELSE << >>

\* the longest prefix of chars made of digits of the radix
RECURSIVE DigitPrefix(_, _)
DigitPrefix(chars, radix) ==
    IF chars = << >> \/ DigitOf(Head(chars), radix) = << >> THEN << >>
    ELSE <<Head(chars)>> \o DigitPrefix(Tail(chars), radix)

\* the value of a sequence of digits of the radix
RECURSIVE DigitsValue(_, _)
DigitsValue(chars, radix) ==
    IF chars = << >> THEN 0
    ELSE radix * DigitsValue(SubSeq(chars, 1, Len(chars) - 1), radix)
            + DigitOf(chars[Len(chars)], radix)[1]

\* parseInt(string, radix): an optional sign, then the longest prefix of
\* digits; << >> is NaN
ParseIntRadix(chars, radix) ==
    LET signed == chars # << >> /\ Head(chars) \in {"-", "+"}
        rest == IF signed THEN Tail(chars) ELSE chars
        digits == DigitPrefix(rest, radix)
    IN  IF digits = << >> THEN << >>
        ELSE IF signed /\ Head(chars) = "-"
             THEN <<0 - DigitsValue(digits, radix)>>
             ELSE <<DigitsValue(digits, radix)>>

\* label.split("-")[0]
RECURSIVE SplitFirst(_)
SplitFirst(label) ==
    IF label = << >> \/ Head(label) = "-" THEN << >>
    ELSE <<Head(label)>> \o SplitFirst(Tail(label))

\* ToNumber(string) of a comparison of a string with a number: the whole
\* string has to be a numeric literal (the empty string is 0); << >> is NaN
ToNumber(chars) ==
    IF chars = << >> THEN <<0>>
    ELSE LET signed == Head(chars) \in {"-", "+"}
             rest == IF signed THEN Tail(chars) ELSE chars
         IN  IF rest # << >> /\ DigitPrefix(rest, 10) = rest
             THEN ParseIntRadix(chars, 10)
             ELSE << >>

\* a <= b and a >= b of two numbers, false when either is NaN
Lte(a, b) == a # << >> /\ b # << >> /\ a[1] <= b[1]
Gte(a, b) == a # << >> /\ b # << >> /\ a[1] >= b[1]

okColor == "rgba(75, 192, 192, 0.6)"
warningColor == "rgba(255, 206, 86, 0.6)"
criticalColor == "rgba(255, 99, 132, 0.6)"

COLORS ==
    [green |-> [good |-> "rgba(75, 192, 75, 0.7)",
                warn |-> "rgba(139, 213, 139, 0.7)",
                crit |-> "rgba(183, 233, 183, 0.7)"],
     red |-> [good |-> "rgba(255, 99, 132, 0.7)",
              warn |-> "rgba(255, 159, 162, 0.7)",
              crit |-> "rgba(255, 205, 210, 0.7)"]]

\* mutant: a lower bound on a threshold falls into the band above it
DistributionColorStrict(label, criticalThreshold, warningThreshold, lowIsBad) ==
    LET lowerBound == ParseIntRadix(SplitFirst(label), 10)
    IN  IF lowIsBad
        THEN IF lowerBound # << >> /\ lowerBound[1] < criticalThreshold
             THEN criticalColor
             ELSE IF lowerBound # << >> /\ lowerBound[1] < warningThreshold
                  THEN warningColor
                  ELSE okColor
        ELSE IF lowerBound # << >> /\ lowerBound[1] > criticalThreshold
             THEN criticalColor
             ELSE IF lowerBound # << >> /\ lowerBound[1] > warningThreshold
                  THEN warningColor
                  ELSE okColor

\* drawDistributionChart: the colour of the bar of one label
DistributionColor(label, criticalThreshold, warningThreshold, lowIsBad) ==
    LET lowerBound == ParseIntRadix(SplitFirst(label), 10)
    IN  IF lowIsBad
        THEN IF Lte(lowerBound, <<criticalThreshold>>) THEN criticalColor
             ELSE IF Lte(lowerBound, <<warningThreshold>>) THEN warningColor
                  ELSE okColor
        ELSE IF Gte(lowerBound, <<criticalThreshold>>) THEN criticalColor
             ELSE IF Gte(lowerBound, <<warningThreshold>>) THEN warningColor
                  ELSE okColor

\* fetchAndDrawHistoryCharts, energy chart: the label itself is compared
\* with the thresholds
EnergyColor(label, palette, critical, start) ==
    IF Lte(ToNumber(label), <<critical>>) THEN COLORS[palette].crit
    ELSE IF Lte(ToNumber(label), <<start>>) THEN COLORS[palette].warn
         ELSE COLORS[palette].good

\* fetchAndDrawHistoryCharts, hunger and thirst charts
NeedColor(label, palette, critical, start) ==
    IF Gte(ToNumber(label), <<critical>>) THEN COLORS[palette].crit
    ELSE IF Gte(ToNumber(label), <<start>>) THEN COLORS[palette].warn
         ELSE COLORS[palette].good

\* one bar of one chart: its label, its thresholds and its palette
BandArgs ==
    {[chart |-> "distribution", label |-> l, critical |-> c, warning |-> w,
      lowIsBad |-> b, palette |-> "green"] :
        l \in BinLabels \cup PlainLabels, c \in BandThresholds,
        w \in BandThresholds, b \in BOOLEAN}
    \cup
    {[chart |-> k, label |-> l, critical |-> c, warning |-> w,
      lowIsBad |-> (k = "energy"), palette |-> p] :
        k \in {"energy", "hunger", "thirst"}, l \in BinLabels,
        c \in BandThresholds, w \in BandThresholds, p \in {"green", "red"}}

InitBand ==
    /\ ViewerIdle
    /\ DashIdle
    /\ RefreshIdle
    /\ TrainIdle
    /\ TileIdle
    /\ LinkIdle
    /\ bandArgs \in {<<a>> : a \in BandArgs}
    /\ bandColor = << >>

\* drawDistributionChart colours the bar
DrawDistributionBar ==
    /\ bandArgs # << >>
    /\ bandArgs[1].chart = "distribution"
    /\ bandColor = << >>
    /\ bandColor' = <<DistributionColor(bandArgs[1].label, bandArgs[1].critical,
                                        bandArgs[1].warning,
                                        bandArgs[1].lowIsBad)>>
    /\ lastOp' = "distributionBar"
    /\ UNCHANGED <<viewerVars, histVars, bandArgs, dashVars, refresh,
                   trainVars, tileVars, linkVars>>

\* a backgroundColor callback of the energy, hunger or thirst chart
\* colours the bar
DrawThresholdBar ==
    /\ bandArgs # << >>
    /\ bandArgs[1].chart \in {"energy", "hunger", "thirst"}
    /\ bandColor = << >>
    /\ bandColor' =
          IF bandArgs[1].chart = "energy"
          THEN <<EnergyColor(bandArgs[1].label, bandArgs[1].palette,
                             bandArgs[1].critical, bandArgs[1].warning)>>
          ELSE <<NeedColor(bandArgs[1].label, bandArgs[1].palette,
                           bandArgs[1].critical, bandArgs[1].warning)>>
    /\ lastOp' = "thresholdBar"
    /\ UNCHANGED <<viewerVars, histVars, bandArgs, dashVars, refresh,
                   trainVars, tileVars, linkVars>>

NextBand ==
    \/ DrawDistributionBar
    \/ DrawThresholdBar

SpecBand == InitBand /\ [][NextBand]_vars

\* the number before the dash of a label, or the number a plain label is
LowerBoundOf(label) ==
    IF \E k \in 1..Len(label) : label[k] = "-"
    THEN LabelBounds(label)[1]
    ELSE DecimalValue(label)

\* the band a lower bound belongs to under the two thresholds
BandOf(lowerBound, critical, warning, lowIsBad) ==
    IF lowIsBad
    THEN IF lowerBound <= critical THEN "CRITICAL"
         ELSE IF lowerBound <= warning THEN "WARNING" ELSE "GOOD"
    ELSE IF lowerBound >= critical THEN "CRITICAL"
         ELSE IF lowerBound >= warning THEN "WARNING" ELSE "GOOD"

\* C21: drawDistributionChart colours every bar by the number before the
\* dash of its label: with lowIsBad a lower bound <= criticalThreshold is
\* critical, otherwise one <= warningThreshold is warning, otherwise ok;
\* without lowIsBad the same with >=.
C21_BarColouredByLowerBound ==
    (bandColor # << >> /\ bandArgs[1].chart = "distribution") =>
        LET band == BandOf(LowerBoundOf(bandArgs[1].label),
                           bandArgs[1].critical, bandArgs[1].warning,
                           bandArgs[1].lowIsBad)
        IN  bandColor[1] = CASE band = "CRITICAL" -> criticalColor
                             [] band = "WARNING" -> warningColor
                             [] band = "GOOD" -> okColor

\* lowIsBad, warning 30, critical 10: the bar "20-29" is drawn in the
\* warning colour
C21_Witness ==
    /\ bandColor = <<warningColor>>
    /\ bandArgs[1].chart = "distribution"
    /\ bandArgs[1].label = Label(20, 29)
    /\ bandArgs[1].lowIsBad
    /\ bandArgs[1].critical = 10
    /\ bandArgs[1].warning = 30

\* C30: in the energy, hunger and thirst charts of fetchAndDrawHistoryCharts
\* a bar is coloured by its bin's lower bound: energy critical at
\* <= CRITICAL_ENERGY and warning at <= ENERGY_TO_START_RESTING, hunger and
\* thirst critical at >= the critical threshold and warning at >= the start
\* threshold, good otherwise.
C30_BarColouredByLowerBound ==
    (bandColor # << >> /\ bandArgs[1].chart # "distribution") =>
        LET band == BandOf(LowerBoundOf(bandArgs[1].label),
                           bandArgs[1].critical, bandArgs[1].warning,
                           bandArgs[1].lowIsBad)
        IN  bandColor[1] =
               CASE band = "CRITICAL" -> COLORS[bandArgs[1].palette].crit
                 [] band = "WARNING" -> COLORS[bandArgs[1].palette].warn
                 [] band = "GOOD" -> COLORS[bandArgs[1].palette].good

\* the energy bar "0-9" with CRITICAL_ENERGY 10 is drawn in the good colour
C30_CriticalBarDrawnGood ==
    /\ bandColor = <<COLORS.green.good>>
    /\ bandArgs[1].chart = "energy"
    /\ bandArgs[1].label = Label(0, 9)
    /\ bandArgs[1].critical = 10
    /\ bandArgs[1].warning = 30

\* ---------------------------------------------------------------------------
\* stats.js: the dashboard pollers (fetchAndDrawHistoryCharts,
\* fetchAndDrawDeathChart)
\* ---------------------------------------------------------------------------

MaxTick == 2
MaxDashInFlight == 2

\* the order fetchAndDrawHistoryCharts refreshes its charts in
HistoryOrder == <<"population", "health", "energy", "hunger", "thirst",
                  "age", "goal">>

\* the families whose distribution a snapshot may come without
FaultFamilies == {"health", "energy", "hunger", "thirst", "age", "goal"}

\* a snapshot of the history: its tick and the family whose distribution
\* property it lacks, if any
StatSnapshots ==
    {[tick |-> t, missing |-> ms] :
        t \in 1..MaxTick, ms \in {<< >>} \cup {<<f>> : f \in FaultFamilies}}

\* the bodies of /api/stats/history: ticks ascend, only the last snapshot is
\* read for its distributions
Histories ==
    {h \in UNION {[1..n -> StatSnapshots] : n \in 0..MaxTick} :
        /\ \A k \in 1..Len(h) : h[k].tick = k + (MaxTick - Len(h))
        /\ \A k \in 1..(Len(h) - 1) : h[k].missing = << >>}

\* the bodies of /api/stats/deaths, by the tick they were taken at
DeathStats == 1..MaxTick

\* what a chart of the family shows of a history: the ticks for the
\* population chart, the distribution of the last snapshot for the others
Shows(family, history) ==
    IF family = "population"
    THEN [k \in 1..Len(history) |-> history[k].tick]
    ELSE <<history[Len(history)].tick>>

\* new Chart(ctx, ...)
NewChart(shows, serial) == <<[id |-> serial, shows |-> shows]>>

\* mutant: a chart is constructed on every refresh
updateBarChartRebuilds(chartInstance, shows, serial) == NewChart(shows, serial)

\* updateBarChart: the chart that exists is written to and returned, else
\* one is constructed
updateBarChart(chartInstance, shows, serial) ==
    IF chartInstance # << >>
    THEN <<[chartInstance[1] EXCEPT !.shows = shows]>>
    ELSE NewChart(shows, serial)

\* updatePieChart
updatePieChart(chartInstance, shows, serial) ==
    IF chartInstance # << >>
    THEN <<[chartInstance[1] EXCEPT !.shows = shows]>>
    ELSE NewChart(shows, serial)

\* the population chart's own if (populationChart) ... else new Chart(...)
updatePopulationChart(chartInstance, shows, serial) ==
    IF chartInstance # << >>
    THEN <<[chartInstance[1] EXCEPT !.shows = shows]>>
    ELSE NewChart(shows, serial)

\* the refresh of one family's chart variable
RefreshFamily(family, chartInstance, shows, serial) ==
    IF family = "population"
    THEN updatePopulationChart(chartInstance, shows, serial)
    ELSE IF family \in {"goal", "death"}
         THEN updatePieChart(chartInstance, shows, serial)
         ELSE updateBarChart(chartInstance, shows, serial)

\* the try block of fetchAndDrawHistoryCharts from the k-th family on: a
\* distribution that is missing throws at its family and the rest is skipped
RECURSIVE RefreshFamilies(_, _, _)
RefreshFamilies(st, history, k) ==
    IF k > Len(HistoryOrder) THEN st
    ELSE LET family == HistoryOrder[k]
             latestStat == history[Len(history)]
         IN  IF latestStat.missing = <<family>>
             THEN [st EXCEPT !.failed = <<family>>]
             ELSE RefreshFamilies(
                    [charts |-> [st.charts EXCEPT ![family] =
                                    RefreshFamily(family, st.charts[family],
                                                  Shows(family, history),
                                                  st.built[family] + 1)],
                     built |-> [st.built EXCEPT ![family] =
                                    IF st.charts[family] = << >>
                                    THEN @ + 1 ELSE @],
                     done |-> st.done \cup {family},
                     created |-> IF st.charts[family] = << >>
                                 THEN st.created \cup {family}
                                 ELSE st.created,
                     failed |-> << >>],
                    history, k + 1)

InitDash ==
    /\ ViewerIdle
    /\ BandIdle
    /\ DashIdle
    /\ RefreshIdle
    /\ TrainIdle
    /\ TileIdle
    /\ LinkIdle

\* initialLoad or the 5 s interval: fetchAndDrawHistoryCharts starts
HistoryStart ==
    /\ dashInflight.history < MaxDashInFlight
    /\ dashInflight' = [dashInflight EXCEPT !.history = @ + 1]
    /\ lastOp' = "historyStart"
    /\ UNCHANGED <<viewerVars, histVars, bandVars, charts, built, refresh,
                   trainVars, tileVars, linkVars>>

\* the fetch rejects or answers non-ok: the throw lands in the catch clause
HistoryFail ==
    /\ dashInflight.history > 0
    /\ dashInflight' = [dashInflight EXCEPT !.history = @ - 1]
    /\ refresh' = [done |-> {}, created |-> {}, failed |-> << >>,
                   from |-> << >>, uncaught |-> FALSE]
    /\ lastOp' = "historyFail"
    /\ UNCHANGED <<viewerVars, histVars, bandVars, charts, built,
                   trainVars, tileVars, linkVars>>

\* the body is []: if (history.length === 0) return
HistoryEmpty ==
    /\ dashInflight.history > 0
    /\ dashInflight' = [dashInflight EXCEPT !.history = @ - 1]
    /\ refresh' = [done |-> {}, created |-> {}, failed |-> << >>,
                   from |-> <<(<< >>)>>, uncaught |-> FALSE]
    /\ lastOp' = "historyEmpty"
    /\ UNCHANGED <<viewerVars, histVars, bandVars, charts, built,
                   trainVars, tileVars, linkVars>>

\* the body is a history with entries: the charts are refreshed in order
HistoryOk(history) ==
    /\ dashInflight.history > 0
    /\ history # << >>
    /\ LET st == RefreshFamilies([charts |-> charts, built |-> built,
                                  done |-> {}, created |-> {},
                                  failed |-> << >>], history, 1)
       IN  /\ charts' = st.charts
           /\ built' = st.built
           /\ refresh' = [done |-> st.done, created |-> st.created,
                          failed |-> st.failed, from |-> <<history>>,
                          uncaught |-> FALSE]
           /\ lastOp' = IF st.failed = << >> THEN "historyOk"
                        ELSE "historyThrew"
    /\ dashInflight' = [dashInflight EXCEPT !.history = @ - 1]
    /\ UNCHANGED <<viewerVars, histVars, bandVars, trainVars, tileVars,
                   linkVars>>

\* initialLoad or the 30 s interval: fetchAndDrawDeathChart starts
DeathsStart ==
    /\ dashInflight.deaths < MaxDashInFlight
    /\ dashInflight' = [dashInflight EXCEPT !.deaths = @ + 1]
    /\ lastOp' = "deathsStart"
    /\ UNCHANGED <<viewerVars, histVars, bandVars, charts, built, refresh,
                   trainVars, tileVars, linkVars>>

\* the fetch rejects (catch clause) or answers non-ok (return)
DeathsFail ==
    /\ dashInflight.deaths > 0
    /\ dashInflight' = [dashInflight EXCEPT !.deaths = @ - 1]
    /\ refresh' = [done |-> {}, created |-> {}, failed |-> << >>,
                   from |-> << >>, uncaught |-> FALSE]
    /\ lastOp' = "deathsFail"
    /\ UNCHANGED <<viewerVars, histVars, bandVars, charts, built,
                   trainVars, tileVars, linkVars>>

\* the body arrives: the cause-of-death chart is refreshed
DeathsOk(deathStats) ==
    /\ dashInflight.deaths > 0
    /\ dashInflight' = [dashInflight EXCEPT !.deaths = @ - 1]
    /\ charts' = [charts EXCEPT !["death"] =
                     RefreshFamily("death", @, <<deathStats>>,
                                   built["death"] + 1)]
    /\ built' = [built EXCEPT !["death"] =
                    IF charts["death"] = << >> THEN @ + 1 ELSE @]
    /\ refresh' = [done |-> {"death"},
                   created |-> IF charts["death"] = << >> THEN {"death"}
                               ELSE {},
                   failed |-> << >>, from |-> <<(<<deathStats>>)>>,
                   uncaught |-> FALSE]
    /\ lastOp' = "deathsOk"
    /\ UNCHANGED <<viewerVars, histVars, bandVars, trainVars, tileVars,
                   linkVars>>

NextDash ==
    \/ HistoryStart
    \/ HistoryFail
    \/ HistoryEmpty
    \/ \E history \in Histories : HistoryOk(history)
    \/ DeathsStart
    \/ DeathsFail
    \/ \E deathStats \in DeathStats : DeathsOk(deathStats)

SpecDash == InitDash /\ [][NextDash]_vars

\* what the family's chart has to show after the refresh recorded
ShownBy(family, from) ==
    IF family = "death" THEN from ELSE Shows(family, from)

\* C22: a family has at most one chart object: it is constructed once, by
\* the first refresh that gets to the family, whatever fetches overlap;
\* every later refresh writes its data into that same object.
C22_OneChartPerFamily ==
    /\ [](\A f \in DashFamilies :
             /\ built[f] <= 1
             /\ (charts[f] # << >>) <=> (built[f] = 1))
    /\ [][\A f \in DashFamilies :
             /\ charts[f] # << >> =>
                   /\ charts'[f] # << >>
                   /\ charts'[f][1].id = charts[f][1].id
             /\ (lastOp' \in {"historyOk", "historyThrew", "deathsOk"}
                    /\ f \in refresh'.done) =>
                   /\ charts'[f] # << >>
                   /\ charts'[f][1].shows = ShownBy(f, refresh'.from[1])
                   /\ (charts[f] = << >>) <=> (f \in refresh'.created)
                   /\ (charts[f] = << >>) <=> (built'[f] = built[f] + 1)]_vars

\* the second of two overlapping history fetches has written into the
\* charts the first one constructed
C22_Witness ==
    /\ lastOp = "historyOk"
    /\ refresh.created = {}
    /\ refresh.done = DashFamilies \ {"death"}
    /\ \A f \in refresh.done : built[f] = 1 /\ charts[f][1].id = 1
    /\ charts["population"][1].shows = <<1, 2>>

\* C23: the pollers fail on their own: a failed history fetch leaves the
\* death poller running and the other way round, and a failure at one
\* family's chart leaves the other families of the same refresh refreshed.
C23_FamiliesFailAlone ==
    /\ [](dashInflight.deaths < MaxDashInFlight => ENABLED DeathsStart)
    /\ [](dashInflight.history < MaxDashInFlight => ENABLED HistoryStart)
    /\ [][lastOp' = "historyFail" =>
             /\ charts'["death"] = charts["death"]
             /\ dashInflight'.deaths = dashInflight.deaths]_vars
    /\ [][lastOp' = "deathsFail" =>
             /\ charts' = charts
             /\ dashInflight'.history = dashInflight.history]_vars
    /\ [][lastOp' = "historyThrew" =>
             \A f \in DashFamilies \ ({"death"} \cup {refresh'.failed[1]}) :
                /\ f \in refresh'.done
                /\ charts'[f] # << >>
                /\ charts'[f][1].shows = Shows(f, refresh'.from[1])]_vars

\* the energy distribution of the last snapshot is missing: the hunger,
\* thirst, age and goal charts were not refreshed either
C23_LaterFamiliesSkipped ==
    /\ lastOp = "historyThrew"
    /\ refresh.failed = <<"energy">>
    /\ refresh.done = {"population", "health"}
    /\ charts["hunger"] = << >>
    /\ charts["goal"] = << >>

\* ---------------------------------------------------------------------------
\* training.js: updateCharts
\* ---------------------------------------------------------------------------

\* the bodies of /api/training_stats: the ticks of the entries, ascending
TrainingStats ==
    {d \in UNION {[1..n -> 1..(MaxTick + 1)] : n \in 0..MaxTick} :
        \A j, k \in 1..Len(d) : j < k => d[j] < d[k]}

\* the page after DOMContentLoaded: createMultiLineChart has built both
\* charts with no labels and no data
InitTrain ==
    /\ ViewerIdle
    /\ BandIdle
    /\ DashIdle
    /\ RefreshIdle
    /\ TileIdle
    /\ LinkIdle
    /\ trainCharts = <<[reward |-> [id |-> 1, shows |-> << >>],
                        concordance |-> [id |-> 1, shows |-> << >>]]>>
    /\ epsilon = << >>
    /\ trainInflight = 0

\* updateChartData: labels and both data arrays are replaced
updateChartData(chart, labels) == [chart EXCEPT !.shows = labels]

\* the call at load or the 30 s interval: updateCharts starts its fetch
TrainStart ==
    /\ trainInflight < MaxDashInFlight
    /\ trainInflight' = trainInflight + 1
    /\ lastOp' = "trainStart"
    /\ UNCHANGED <<viewerVars, histVars, bandVars, dashVars, refresh,
                   trainCharts, epsilon, tileVars, linkVars>>

\* the fetch rejects or the body is no JSON: the promise chain has no catch
TrainFail ==
    /\ trainInflight > 0
    /\ trainInflight' = trainInflight - 1
    /\ refresh' = [done |-> {}, created |-> {}, failed |-> << >>,
                   from |-> << >>, uncaught |-> TRUE]
    /\ lastOp' = "trainFail"
    /\ UNCHANGED <<viewerVars, histVars, bandVars, dashVars, trainCharts,
                   epsilon, tileVars, linkVars>>

\* the body arrives: both charts are written, then the epsilons are read
\* off the last entry, which is undefined when there is none
TrainOk(data) ==
    /\ trainInflight > 0
    /\ trainInflight' = trainInflight - 1
    /\ trainCharts' =
          <<[reward |-> updateChartData(trainCharts[1].reward, data),
             concordance |-> updateChartData(trainCharts[1].concordance,
                                             data)]>>
    /\ epsilon' = IF data = << >> THEN epsilon ELSE <<data[Len(data)]>>
    /\ refresh' = [done |-> {"reward", "concordance"}, created |-> {},
                   failed |-> IF data = << >> THEN <<"epsilon">> ELSE << >>,
                   from |-> <<data>>, uncaught |-> (data = << >>)]
    /\ lastOp' = IF data = << >> THEN "trainEmpty" ELSE "trainOk"
    /\ UNCHANGED <<viewerVars, histVars, bandVars, dashVars, tileVars,
                   linkVars>>

NextTrain ==
    \/ TrainStart
    \/ TrainFail
    \/ \E data \in TrainingStats : TrainOk(data)

SpecTrain == InitTrain /\ [][NextTrain]_vars

\* C24: a refresh that gets an empty list draws nothing and is no error:
\* every chart, built or not, is as it was, nothing is thrown, and the
\* interval's next refresh can start.
C24_EmptyDrawsNothing ==
    /\ [][lastOp' \in {"historyEmpty", "trainEmpty"} =>
             /\ charts' = charts
             /\ built' = built
             /\ trainCharts' = trainCharts
             /\ ~refresh'.uncaught]_vars
    /\ [](lastOp = "historyEmpty" => ENABLED HistoryStart)
    /\ [](lastOp = "trainEmpty" => ENABLED TrainStart)

\* the training charts held entries; an empty list has emptied them and
\* the handler has ended in an uncaught TypeError
C24_EmptyClearsAndThrows ==
    /\ lastOp = "trainEmpty"
    /\ epsilon # << >>
    /\ trainCharts[1].reward.shows = << >>
    /\ refresh.uncaught

\* ---------------------------------------------------------------------------
\* Colours: drawTerrain (interpolateColor, shadeColor), the marker colour
\* of animationLoop, the slice colours of the goal chart
\* ---------------------------------------------------------------------------

\* data-default-grass-food of the page
DEFAULT_GRASS_FOOD == 15

colorMap ==
    [WATER |-> <<"#", "4", "2", "8", "7", "f", "5">>,
     GRASS |-> <<"#", "3", "4", "a", "1", "2", "d">>,
     DIRT |-> <<"#", "8", "5", "5", "a", "3", "8">>,
     MOUNTAIN |-> <<"#", "a", "1", "a", "2", "a", "3">>]

\* the "#000" of colorMap[tile.terrain] || "#000"
fallbackColor == <<"#", "0", "0", "0">>

GOAL_COLOR_MAP ==
    [IDLE |-> "#6c757d", RESTING |-> "#007bff", SEEKING_WATER |-> "#078298",
     DRINKING |-> "#17a2b8", SEEKING_FOOD |-> "#fd7e14", EATING |-> "#28a745",
     ATTACK |-> "#dc3545", FLEEING |-> "#ffc107", SEEKING_MATE |-> "#d82e7c",
     BREEDING |-> "#e83e8c"]

\* string.substring(from, to), both in 0..Len(string) after clipping
Substring(chars, from, to) ==
    SubSeq(chars, from + 1, IF to < Len(chars) THEN to ELSE Len(chars))

\* the quotient rounded towards minus infinity and towards zero (b > 0)
FloorDiv(a, b) == IF a >= 0 THEN a \div b ELSE 0 - (((0 - a) + b - 1) \div b)
TruncDiv(a, b) == IF a >= 0 THEN a \div b ELSE 0 - ((0 - a) \div b)

\* n.toString(16) of an integer or NaN
RECURSIVE HexDigits(_)
HexDigits(n) ==
    IF n < 16 THEN <<HexChars[n + 1]>>
    ELSE Append(HexDigits(n \div 16), HexChars[(n % 16) + 1])
ToString16(n) ==
    IF n = << >> THEN <<"N", "a", "N">>
    ELSE IF n[1] < 0 THEN <<"-">> \o HexDigits(0 - n[1])
         ELSE HexDigits(n[1])

\* string.padStart(2, "0")
PadStart2(chars) == IF Len(chars) < 2 THEN <<"0">> \o chars ELSE chars

\* the three channels a colour string is read as
Channels(color) ==
    [i \in 1..3 |-> ParseIntRadix(Substring(color, 2 * i - 1, 2 * i + 1), 16)]

\* interpolateColor(color1, color2, food_available / DEFAULT_GRASS_FOOD):
\* Math.round(c1 * (1 - factor) + c2 * factor) per channel, written in hex
interpolateColor(color1, color2, food) ==
    LET c1 == Channels(color1)
        c2 == Channels(color2)
        final(i) ==
            IF food = << >> \/ c1[i] = << >> \/ c2[i] = << >> THEN << >>
            ELSE <<FloorDiv(2 * (c1[i][1] * (DEFAULT_GRASS_FOOD - food[1])
                                   + c2[i][1] * food[1])
                              + DEFAULT_GRASS_FOOD,
                            2 * DEFAULT_GRASS_FOOD)>>
    IN  <<"#">> \o PadStart2(ToString16(final(1)))
               \o PadStart2(ToString16(final(2)))
               \o PadStart2(ToString16(final(3)))

\* parseInt(c * (1.0 + height * 0.4)), the height in tenths
Shade(c, height) ==
    IF c = << >> \/ height = << >> THEN << >>
    ELSE <<TruncDiv(c[1] * (100 + 4 * height[1]), 100)>>

\* c < 255 ? c : 255, then c > 0 ? c : 0 (NaN fails the first test)
Clamp(c) ==
    LET upper == IF c # << >> /\ c[1] < 255 THEN c[1] ELSE 255
    IN  IF upper > 0 THEN upper ELSE 0

\* the two hex digits of a channel
TwoDigits(n) ==
    IF Len(HexDigits(n)) = 1 THEN <<"0">> \o HexDigits(n) ELSE HexDigits(n)

\* mutant: the channels are not clamped
shadeColorUnclamped(color, height) ==
    LET c == Channels(color)
    IN  <<"#">> \o PadStart2(ToString16(Shade(c[1], height)))
               \o PadStart2(ToString16(Shade(c[2], height)))
               \o PadStart2(ToString16(Shade(c[3], height)))

\* shadeColor(color, tile.height * 0.4)
shadeColor(color, height) ==
    LET c == Channels(color)
    IN  <<"#">> \o TwoDigits(Clamp(Shade(c[1], height)))
               \o TwoDigits(Clamp(Shade(c[2], height)))
               \o TwoDigits(Clamp(Shade(c[3], height)))

\* drawTerrain: the colour a tile starts from
baseColor(tile) ==
    IF tile.terrain = "GRASS"
    THEN interpolateColor(colorMap.DIRT, colorMap.GRASS, tile.food_available)
    ELSE IF tile.terrain \in DOMAIN colorMap THEN colorMap[tile.terrain]
         ELSE fallbackColor

\* drawTerrain: the colour a tile is filled with
finalColor(tile) == shadeColor(baseColor(tile), tile.height)

\* animationLoop: the marker colour of a diet
DietColor(diet) ==
    IF diet = "HERBIVORE" THEN <<"c", "y", "a", "n">>
    ELSE IF diet = "CARNIVORE" THEN <<"r", "e", "d">>
         ELSE <<"g", "r", "e", "y">>

\* GOAL_COLOR_MAP[label] || "#343a40"
GoalColor(label) ==
    IF label \in DOMAIN GOAL_COLOR_MAP THEN GOAL_COLOR_MAP[label]
    ELSE "#343a40"

\* the tiles, markers and goal slices painted: a kind outside every map,
\* resource levels up to twice the default, heights in tenths, and the
\* properties a response may lack
TileTerrains == {"WATER", "GRASS", "DIRT", "MOUNTAIN", "LAVA"}
TileFoods == {0, 5, 15, 16, 30}
TileHeights == {0 - 30, 0 - 25, 0 - 10, 0, 5, 10, 30}
Diets == {"HERBIVORE", "CARNIVORE", "OMNIVORE"}
GoalLabels == {"IDLE", "FLEEING", "WANDERING"}

Painted ==
    {[kind |-> "tile", terrain |-> t, food_available |-> f, height |-> h] :
        t \in TileTerrains,
        f \in {<< >>} \cup {<<n>> : n \in TileFoods},
        h \in {<< >>} \cup {<<n>> : n \in TileHeights}}
    \cup {[kind |-> "critter", diet |-> d] : d \in Diets}
    \cup {[kind |-> "goal", label |-> l] : l \in GoalLabels}

InitTile ==
    /\ ViewerIdle
    /\ BandIdle
    /\ DashIdle
    /\ RefreshIdle
    /\ TrainIdle
    /\ LinkIdle
    /\ tileArg \in {<<p>> : p \in Painted}
    /\ fillStyle = << >>
    /\ drawn = << >>

\* drawTerrain: ctx.fillStyle = finalColor
DrawTile ==
    /\ tileArg # << >>
    /\ tileArg[1].kind = "tile"
    /\ fillStyle = << >>
    /\ fillStyle' = <<finalColor(tileArg[1])>>
    /\ lastOp' = "tile"
    /\ UNCHANGED <<viewerVars, histVars, bandVars, dashVars, refresh,
                   trainVars, tileArg, drawn, linkVars>>

\* animationLoop: ctx.fillStyle of a marker
DrawMarker ==
    /\ tileArg # << >>
    /\ tileArg[1].kind = "critter"
    /\ fillStyle = << >>
    /\ fillStyle' = <<DietColor(tileArg[1].diet)>>
    /\ lastOp' = "marker"
    /\ UNCHANGED <<viewerVars, histVars, bandVars, dashVars, refresh,
                   trainVars, tileArg, drawn, linkVars>>

\* fetchAndDrawHistoryCharts: the backgroundColor of a slice of the goal
\* chart
DrawGoalSlice ==
    /\ tileArg # << >>
    /\ tileArg[1].kind = "goal"
    /\ fillStyle = << >>
    /\ fillStyle' = <<GoalColor(tileArg[1].label)>>
    /\ lastOp' = "goalSlice"
    /\ UNCHANGED <<viewerVars, histVars, bandVars, dashVars, refresh,
                   trainVars, tileArg, drawn, linkVars>>

NextTile ==
    \/ DrawTile
    \/ DrawMarker
    \/ DrawGoalSlice

SpecTile == InitTile /\ [][NextTile]_vars

\* a colour string "#rrggbb" of six hex digits
WellFormedHex(color) ==
    /\ Len(color) = 7
    /\ color[1] = "#"
    /\ \A k \in 2..7 : DigitOf(color[k], 16) # << >>

\* the value of the i-th channel of a well-formed colour
ChannelValue(color, i) ==
    16 * DigitOf(color[2 * i], 16)[1] + DigitOf(color[2 * i + 1], 16)[1]

\* C27: an unknown category is painted in its fallback colour: a tile of a
\* kind outside colorMap in #000, a goal outside GOAL_COLOR_MAP in #343a40,
\* a marker of another diet in grey.
C27_UnknownPaintedInFallback ==
    fillStyle # << >> =>
        /\ (tileArg[1].kind = "tile"
              /\ tileArg[1].terrain \notin DOMAIN colorMap) =>
                 fillStyle[1] \in {fallbackColor,
                                   <<"#", "0", "0", "0", "0", "0", "0">>}
        /\ (tileArg[1].kind = "goal"
              /\ tileArg[1].label \notin DOMAIN GOAL_COLOR_MAP) =>
                 fillStyle[1] = "#343a40"
        /\ (tileArg[1].kind = "critter"
              /\ tileArg[1].diet \notin {"HERBIVORE", "CARNIVORE"}) =>
                 fillStyle[1] = <<"g", "r", "e", "y">>

\* a flat tile of an unknown kind has been filled with blue
C27_UnknownTilePaintedBlue ==
    /\ fillStyle # << >>
    /\ tileArg[1].kind = "tile"
    /\ tileArg[1].terrain = "LAVA"
    /\ tileArg[1].height = <<0>>
    /\ fillStyle[1] = <<"#", "0", "0", "0", "0", "f", "f">>

\* C28: whatever the tile's kind, height and resource level (above
\* DEFAULT_GRASS_FOOD included), the colour drawTerrain fills it with is
\* "#" and six hex digits, each channel an integer in 0..255.
C28_FinalColourWellFormed ==
    (fillStyle # << >> /\ tileArg[1].kind = "tile") =>
        /\ WellFormedHex(fillStyle[1])
        /\ \A i \in 1..3 : ChannelValue(fillStyle[1], i) \in 0..255

\* a GRASS tile holding twice the default resource level, raised by three
\* units, has been filled: its base colour is no colour string, the colour
\* it is filled with is one
C28_Witness ==
    /\ fillStyle # << >>
    /\ tileArg[1].kind = "tile"
    /\ tileArg[1].terrain = "GRASS"
    /\ tileArg[1].food_available = <<30>>
    /\ tileArg[1].height = <<30>>
    /\ ~WellFormedHex(baseColor(tileArg[1]))
    /\ WellFormedHex(fillStyle[1])

\* ---------------------------------------------------------------------------
\* The deep link: handleManualUpdate writes the location, the load listener
\* reads it
\* ---------------------------------------------------------------------------

MaxLinkInFlight == 1

LinkFields == {"x", "y", "w", "h"}

\* the value attributes of the four inputs
DefaultInputs ==
    [x |-> <<"5">>, y |-> <<"5">>, w |-> <<"1", "0">>, h |-> <<"1", "0">>]

\* what a user leaves in an input: numbers as a number input accepts them
\* (an exponent may carry a sign) or nothing; a text input also takes a blank
NumberValues ==
    {<<"5">>, <<"-", "3">>, <<"2", ".", "5">>, <<"1", "e", "+", "2">>, << >>}
TextValues == NumberValues \cup {<<"2", " ", "5">>}

\* the input a user edits (the four are read and written alike)
EditedFields == {"x"}

\* a non-empty string of decimal digits
AllDigits(chars) == chars # << >> /\ DigitPrefix(chars, 10) = chars

\* the position of the first occurrence of a character, 0 when there is none
FirstIndex(chars, c) ==
    IF \E k \in 1..Len(chars) : chars[k] = c
    THEN CHOOSE k \in 1..Len(chars) :
            chars[k] = c /\ \A j \in 1..(k - 1) : chars[j] # c
    ELSE 0

\* a valid floating-point number of HTML: -? digits (. digits)? (e [+-]? digits)?
IsValidFloat(chars) ==
    LET unsigned == IF chars # << >> /\ Head(chars) = "-" THEN Tail(chars)
                    ELSE chars
        e == FirstIndex(unsigned, "e")
        mantissa == IF e = 0 THEN unsigned ELSE SubSeq(unsigned, 1, e - 1)
        exponent == IF e = 0 THEN << >>
                    ELSE SubSeq(unsigned, e + 1, Len(unsigned))
        digits == IF exponent # << >> /\ Head(exponent) \in {"+", "-"}
                  THEN Tail(exponent) ELSE exponent
        dot == FirstIndex(mantissa, ".")
    IN  /\ IF dot = 0 THEN AllDigits(mantissa)
           ELSE /\ dot = 1 \/ AllDigits(SubSeq(mantissa, 1, dot - 1))
                /\ AllDigits(SubSeq(mantissa, dot + 1, Len(mantissa)))
        /\ e # 0 => AllDigits(digits)

\* input.value = v: a number input keeps a valid number and blanks anything
\* else, a text input keeps the string
Sanitize(type, chars) ==
    IF type = "number" /\ ~IsValidFloat(chars) THEN << >> ELSE chars

\* the template literal `?x=${currentView.x}&y=...&w=...&h=...`
QueryOf(view) ==
    <<"?", "x", "=">> \o view.x \o <<"&", "y", "=">> \o view.y
        \o <<"&", "w", "=">> \o view.w \o <<"&", "h", "=">> \o view.h

\* history.pushState: the URL parser percent-encodes a blank of the query
RECURSIVE PercentEncode(_)
PercentEncode(chars) ==
    IF chars = << >> THEN << >>
    ELSE IF Head(chars) = " "
         THEN <<"%", "2", "0">> \o PercentEncode(Tail(chars))
         ELSE <<Head(chars)>> \o PercentEncode(Tail(chars))

\* the strings between the separators
RECURSIVE SplitAt(_, _)
SplitAt(chars, sep) ==
    LET k == FirstIndex(chars, sep)
    IN  IF k = 0 THEN <<chars>>
        ELSE <<SubSeq(chars, 1, k - 1)>>
                \o SplitAt(SubSeq(chars, k + 1, Len(chars)), sep)

\* URLSearchParams: a plus sign reads as a blank, then %20 is decoded
RECURSIVE FormDecode(_)
FormDecode(chars) ==
    IF chars = << >> THEN << >>
    ELSE IF Head(chars) = "+" THEN <<" ">> \o FormDecode(Tail(chars))
    ELSE IF Len(chars) >= 3 /\ SubSeq(chars, 1, 3) = <<"%", "2", "0">>
         THEN <<" ">> \o FormDecode(SubSeq(chars, 4, Len(chars)))
         ELSE <<Head(chars)>> \o FormDecode(Tail(chars))

\* new URLSearchParams(window.location.search): the name-value pairs
URLSearchParams(query) ==
    LET body == IF query # << >> /\ Head(query) = "?" THEN Tail(query)
                ELSE query
        parts == SelectSeq(SplitAt(body, "&"), LAMBDA p : p # << >>)
        pair(p) ==
            LET k == FirstIndex(p, "=")
            IN  IF k = 0 THEN [name |-> FormDecode(p), value |-> << >>]
                ELSE [name |-> FormDecode(SubSeq(p, 1, k - 1)),
                      value |-> FormDecode(SubSeq(p, k + 1, Len(p)))]
    IN  [k \in 1..Len(parts) |-> pair(parts[k])]

\* urlParams.has(name) and urlParams.get(name)
Has(params, name) == \E k \in 1..Len(params) : params[k].name = <<name>>
Get(params, name) ==
    params[CHOOSE k \in 1..Len(params) :
              /\ params[k].name = <<name>>
              /\ \A j \in 1..(k - 1) : params[j].name # <<name>>].value

\* the load listener: the inputs named in the query take its values
InputsFrom(query, type) ==
    LET params == URLSearchParams(query)
        value(f) == IF Has(params, f) THEN Sanitize(type, Get(params, f))
                    ELSE DefaultInputs[f]
    IN  [type |-> type, x |-> value("x"), y |-> value("y"),
         w |-> value("w"), h |-> value("h")]

\* currentView.x = xInput.value, ... (strings)
ViewOf(in) == [x |-> in.x, y |-> in.y, w |-> in.w, h |-> in.h]

\* the page loaded from a location without a query: the inputs hold their
\* value attributes and the load listener has called handleManualUpdate
InitLink ==
    /\ BandIdle
    /\ DashIdle
    /\ RefreshIdle
    /\ TrainIdle
    /\ TileIdle
    /\ \E type \in {"text", "number"} : inputs = InputsFrom(<< >>, type)
    /\ currentView = ViewOf(inputs)
    /\ search = PercentEncode(QueryOf(currentView))
    /\ currentTerrainData = << >>
    /\ critterDisplayData = EmptyCache
    /\ selectedCritter = << >>
    /\ statsContent = << >>
    /\ imageContainer = << >>
    /\ eventLogContainer = LogEmpty
    /\ inflight = <<Request("manualTerrain", currentView)>>
    /\ eventsPending = {}
    /\ rafScheduled = TRUE
    /\ lastOp = "pageLoad"
    /\ lastList = << >>
    /\ lastClick = << >>
    /\ frames = 0
    /\ histArgs = << >>
    /\ histogram = << >>

\* the user leaves a value in one of the inputs
EditInput(field, value) ==
    /\ field \in EditedFields
    /\ value \in IF inputs.type = "number" THEN NumberValues ELSE TextValues
    /\ inputs[field] # value
    /\ inputs' = [inputs EXCEPT ![field] = value]
    /\ lastOp' = "edit"
    /\ UNCHANGED <<viewerVars, histVars, bandVars, dashVars, refresh,
                   trainVars, tileVars, search>>

\* handleManualUpdate up to its first await: the view takes the input
\* values, the location is written, the terrain is requested
LinkManualUpdate ==
    /\ Len(inflight) < MaxLinkInFlight
    /\ currentView' = ViewOf(inputs)
    /\ search' = PercentEncode(QueryOf(currentView'))
    /\ inflight' = Append(inflight, Request("manualTerrain", currentView'))
    /\ lastOp' = "manualStart"
    /\ UNCHANGED <<currentTerrainData, critterDisplayData, selVars,
                   rafScheduled, lastList, lastClick, frames, histVars,
                   bandVars, dashVars, refresh, trainVars, tileVars, inputs>>

\* the page is loaded from its own location: a new document, whose load
\* listener sets the inputs from the query and calls handleManualUpdate
PageLoad ==
    /\ inputs' = InputsFrom(search, inputs.type)
    /\ currentView' = ViewOf(inputs')
    /\ search' = PercentEncode(QueryOf(currentView'))
    /\ currentTerrainData' = << >>
    /\ critterDisplayData' = EmptyCache
    /\ selectedCritter' = << >>
    /\ statsContent' = << >>
    /\ imageContainer' = << >>
    /\ eventLogContainer' = LogEmpty
    /\ inflight' = <<Request("manualTerrain", currentView')>>
    /\ eventsPending' = {}
    /\ rafScheduled' = TRUE
    /\ lastOp' = "pageLoad"
    /\ lastList' = << >>
    /\ lastClick' = << >>
    /\ UNCHANGED <<frames, histVars, bandVars, dashVars, refresh, trainVars,
                   tileVars>>

NextLink ==
    \/ \E field \in LinkFields, value \in TextValues : EditInput(field, value)
    \/ LinkManualUpdate
    \/ PageLoad
    \/ \E i \in 1..MaxLinkInFlight : ManualTerrainOk(i)
    \/ \E i \in 1..MaxLinkInFlight : ManualTerrainFail(i)
    \/ \E i \in 1..MaxLinkInFlight : ManualCrittersOk(i, << >>)
    \/ \E i \in 1..MaxLinkInFlight : ManualCrittersFail(i)

SpecLink == InitLink /\ [][NextLink]_vars

\* C26: the deep link round trip: a manual update writes x, y, w and h of
\* the view into the location, and the page loaded from that location has
\* the view that was written.
C26_DeepLinkRoundTrip ==
    /\ [][lastOp' = "manualStart" =>
             search' = PercentEncode(QueryOf(currentView'))]_vars
    /\ [][lastOp' = "pageLoad" => currentView' = currentView]_vars

\* x was 1e+2 when the location was written; the page loaded from it has
\* another x
C26_ReloadChangesView ==
    /\ lastOp = "pageLoad"
    /\ currentView.x \in {<<"1", "e", " ", "2">>, << >>}
    /\ inputs.x = currentView.x
    /\ currentView.w = <<"1", "0">>

\* ------------------------------------------------------ claims C31 .. C38

\* the ids in reach of the pointer whose marker is at the least distance
Nearest(cache, view, pointer) ==
    {id \in InReach(cache, view, pointer) :
        \A other \in InReach(cache, view, pointer) :
            MarkerDistance2(cache[id], view, pointer)
               <= MarkerDistance2(cache[other], view, pointer)}

\* C32: hit-testing is deterministic. A click selects, of the entities at the
\* least distance within reach, the one that comes first in the iteration
\* order of the cache (ascending ids), and a click at the pointer of the
\* click before it, the cache and the viewport being the same, selects the
\* same entity.
C32_TiesGoToFirst ==
    [][lastOp' \in ClickNames =>
         LET nearest == Nearest(critterDisplayData, currentView, lastClick'[1])
         IN  /\ selectedCritter' =
                   IF nearest = {} THEN << >>
                   ELSE <<critterDisplayData[Least(nearest)].critter>>
             /\ lastClick = lastClick' => selectedCritter' = selectedCritter
        ]_vars

\* a click hit two entities drawn at the same distance from the pointer and
\* selected the first
C32_Witness ==
    /\ lastOp = "clickHit"
    /\ Cardinality(Nearest(critterDisplayData, currentView, lastClick[1])) = 2
    /\ selectedCritter = <<critterDisplayData[1].critter>>

\* the records of a cache without their current position: the ids, and the
\* target and the snapshot of each
Reconciled(cache) ==
    [id \in DOMAIN cache |->
        [targetX |-> cache[id].targetX, targetY |-> cache[id].targetY,
         critter |-> cache[id].critter]]

\* C33: the set of cached records and the target and snapshot of each are
\* changed only by a live update or a manual update. A render frame changes
\* the current position of existing records and re-derives the selection, a
\* click changes the selection and leaves the cache alone; neither changes
\* the viewport, the terrain or the fetches in flight.
C33_RecordsChangedOnlyByReconciliation ==
    [][/\ lastOp' = "frame" =>
             /\ Reconciled(critterDisplayData') = Reconciled(critterDisplayData)
             /\ UNCHANGED <<viewVars, inflight>>
       /\ lastOp' \in ClickNames =>
             UNCHANGED <<critterDisplayData, viewVars, inflight>>
       /\ Reconciled(critterDisplayData') # Reconciled(critterDisplayData) =>
             lastOp' \in LiveOkNames \cup {"manualOk"}
      ]_vars

\* a frame has moved the selected entity towards a target it has not reached
C33_Witness ==
    /\ lastOp = "frame"
    /\ \E id \in DOMAIN critterDisplayData :
          /\ selectedCritter = <<critterDisplayData[id].critter>>
          /\ critterDisplayData[id].currentX # critterDisplayData[id].targetX
          /\ critterDisplayData[id].currentX # critterDisplayData[id].critter.x

\* ------------------------------------------------- before the terrain is loaded

\* mutant: handleLiveUpdate fetches whether or not the terrain is loaded
LiveUpdateUnguarded ==
    /\ currentTerrainData = << >>
    /\ Len(inflight) < MaxSelectInFlight
    /\ inflight' = Append(inflight, Request("live", currentView))
    /\ lastOp' = "liveSkip"
    /\ UNCHANGED <<viewVars, critterDisplayData, selVars, rafScheduled,
                   lastList, lastClick, frames, histVars, pageVars>>

\* handleLiveUpdate while currentTerrainData is null: the handler returns at
\* its first line
LiveUpdateSkipped ==
    /\ currentTerrainData = << >>
    /\ lastOp' = "liveSkip"
    /\ UNCHANGED <<viewVars, critterDisplayData, selVars, inflight,
                   rafScheduled, lastList, lastClick, frames, histVars,
                   pageVars>>

\* handleCanvasClick while currentTerrainData is null: the handler returns at
\* its first line
CanvasClickIgnored(pointer) ==
    /\ currentTerrainData = << >>
    /\ lastOp' = "clickSkip"
    /\ lastClick' = <<pointer>>
    /\ UNCHANGED <<viewVars, critterDisplayData, selVars, inflight,
                   rafScheduled, lastList, frames, histVars, pageVars>>

\* the viewer from the start of the script: the handlers of the timer, the
\* canvas and the draw button, before and after the first terrain arrives
NextLoad ==
    \/ \E v \in Views : SelectManualStart(v)
    \/ \E i \in 1..MaxSelectInFlight : ManualTerrainOk(i)
    \/ \E i \in 1..MaxSelectInFlight : ManualTerrainFail(i)
    \/ \E i \in 1..MaxSelectInFlight, list \in SelectLists :
          ManualCrittersOk(i, list)
    \/ \E i \in 1..MaxSelectInFlight : ManualCrittersFail(i)
    \/ LiveUpdateSkipped
    \/ SelectLiveStart
    \/ \E i \in 1..MaxSelectInFlight, list \in SelectLists :
          LiveUpdateOk(i, list)
    \/ \E i \in 1..MaxSelectInFlight : LiveUpdateFail(i)
    \/ \E p \in SelectPointers : CanvasClickIgnored(p)
    \/ \E p \in SelectPointers : CanvasClick(p)

SpecLoad == Init /\ [][NextLoad]_vars

\* C38: no live poll is issued before a terrain snapshot has been loaded.
\* While currentTerrainData is null no poll is in flight, the cache is empty
\* and nothing is selected; handleLiveUpdate then returns without fetching
\* and without touching the cache, and a click leaves the selection as it is.
C38_NothingBeforeTerrain ==
    [][/\ currentTerrainData' = << >> =>
             /\ \A i \in 1..Len(inflight') : inflight'[i].kind # "live"
             /\ critterDisplayData' = EmptyCache
             /\ selectedCritter' = << >>
       /\ lastOp' = "liveSkip" =>
             UNCHANGED <<inflight, critterDisplayData, viewVars, selVars>>
       /\ lastOp' = "clickSkip" =>
             UNCHANGED <<selVars, critterDisplayData, viewVars, inflight>>
      ]_vars

\* the timer fired while the first terrain fetch was in flight, after a
\* click on the empty canvas
C38_Witness ==
    /\ lastOp = "liveSkip"
    /\ currentTerrainData = << >>
    /\ lastClick # << >>
    /\ Len(inflight) = 1
    /\ inflight[1].kind = "manualTerrain"

\* C34 as stated: a click that selects an entity starts the fetch of its
\* event log, and an event-log response that fills the panel is for the
\* entity selected when it arrives: a response for an entity that is no
\* longer selected, or arriving after the selection was cleared, never
\* overwrites the event-log panel.
C34_LogOfTheSelected ==
    [][/\ lastOp' = "clickHit" =>
             /\ statsContent' = selectedCritter'
             /\ selectedCritter'[1].id \in eventsPending'
       /\ (lastOp' = "events" /\ eventLogContainer'.kind = "log") =>
             /\ selectedCritter' # << >>
             /\ selectedCritter'[1].id = eventLogContainer'.id
      ]_vars

\* the event log of an entity has been written under the detail panel of
\* another entity, selected since the fetch left
C34_LogOfAnother ==
    /\ lastOp = "events"
    /\ eventLogContainer.kind = "log"
    /\ selectedCritter # << >>
    /\ statsContent = selectedCritter
    /\ selectedCritter[1].id # eventLogContainer.id

\* the response applied by this step is the one of the request at i
Applies(i) ==
    \/ /\ lastOp' \in LiveOkNames
       /\ inflight[i].kind = "live"
       /\ inflight' = RemoveAt(Overtake(inflight, i), i)
    \/ /\ lastOp' = "manualOk"
       /\ inflight[i].kind = "manualCritters"
       /\ inflight' = RemoveAt(inflight, i)

\* C35 as stated: the cache only holds entities fetched for the current
\* viewport. Once a manual update has completed and the terrain is the one
\* of the current viewport, the response of a poll, or of an earlier manual
\* update, that was issued for another viewport is not applied to the cache.
C35_NoResponseOfAnotherView ==
    [][(lastOp = "manualOk" /\ currentTerrainData = <<currentView>>) =>
          \A i \in 1..Len(inflight) :
              Applies(i) => inflight[i].view = currentView]_vars

\* a manual update to a new viewport has completed while a poll issued for
\* the viewport before it is still in flight
C35_PollOfPreviousView ==
    /\ lastOp = "manualOk"
    /\ currentTerrainData = <<currentView>>
    /\ Len(inflight) = 1
    /\ inflight[1].kind = "live"
    /\ inflight[1].view # currentView
    /\ ENABLED (\E list \in CritterLists : LiveUpdateOk(1, list))

\* C36 as stated: a manual update is all-or-nothing. After a manual update,
\* whether it succeeded or its terrain fetch or its entity fetch failed, the
\* terrain snapshot belongs to the viewport held in currentView; a failed
\* update leaves the viewport, the terrain and the cache as they were.
C36_ManualUpdateAllOrNothing ==
    [][/\ lastOp' \in {"terrainFail", "manualFail", "manualOk"} =>
             currentTerrainData' = <<currentView'>>
       /\ lastOp' \in {"terrainFail", "manualFail"} =>
             UNCHANGED <<currentTerrainData, critterDisplayData>>
      ]_vars

\* the terrain fetch of a manual update has failed: the viewport is the one
\* that was asked for, the terrain drawn is the one of the viewport before
C36_ViewWithoutItsTerrain ==
    /\ lastOp = "terrainFail"
    /\ inflight = << >>
    /\ currentTerrainData # << >>
    /\ currentTerrainData # <<currentView>>
    /\ critterDisplayData # EmptyCache

\* tiles.length of the snapshot fetched for a view: the terrain endpoint
\* answers with the w x h tiles of the rectangle, row by row
TileCount(terrain) == terrain.w * terrain.h

\* the cell at which drawTerrain(view) paints tile i: x = i % view.w and
\* y = Math.floor(i / view.w)
TileColumn(i, view) == i % view.w
TileRow(i, view) == i \div view.w

\* C37 as stated: whenever a render frame draws terrain, the snapshot was
\* fetched for the viewport the frame uses: it has currentView.w *
\* currentView.h tiles and tile i is drawn at the column and the row it has
\* in the rectangle it was fetched for.
C37_FrameDrawsTerrainOfItsView ==
    [][(lastOp' = "frame" /\ currentTerrainData' # << >>) =>
          LET terrain == currentTerrainData'[1]
          IN  /\ terrain = currentView'
              /\ TileCount(terrain) = currentView'.w * currentView'.h
              /\ \A i \in 0..(TileCount(terrain) - 1) :
                    /\ TileColumn(i, currentView') = TileColumn(i, terrain)
                    /\ TileRow(i, currentView') = TileRow(i, terrain)
      ]_vars

\* a frame has drawn the terrain of the viewport before while the terrain
\* fetch of a manual update was in flight: the tiles are laid out in rows of
\* another length than the one they were fetched with
C37_TerrainOfAnotherView ==
    /\ lastOp = "frame"
    /\ currentTerrainData # << >>
    /\ Len(inflight) = 1
    /\ inflight[1].kind = "manualTerrain"
    /\ TileCount(currentTerrainData[1]) # currentView.w * currentView.h
    /\ \E i \in 0..(TileCount(currentTerrainData[1]) - 1) :
          TileRow(i, currentView) # TileRow(i, currentTerrainData[1])

\* ------------------------------------------------ the markers a frame draws

\* the centres of the arcs a frame draws, in scaled pixels: for each record
\* (canvasX + tileWidth / 2, canvasY + tileHeight / 2) at the position the
\* frame has advanced it to
Centres(cache, view) ==
    [id \in DOMAIN cache |->
        <<MarkerX(cache[id], view), MarkerY(cache[id], view)>>]

\* the responses of the entities endpoint in SpecDraw: entity 1 or nothing
DrawLists == {l \in SelectLists : IdsOf(l) \subseteq {1}}

\* the viewer after its initial load and a frame: the markers of the cache
\* are drawn
InitDraw ==
    /\ currentView \in Views
    /\ currentTerrainData = <<currentView>>
    /\ \E list \in DrawLists :
          /\ critterDisplayData = RebuildManual(list)
          /\ lastList = <<list>>
    /\ selectedCritter = << >>
    /\ statsContent = << >>
    /\ imageContainer = << >>
    /\ eventLogContainer = LogEmpty
    /\ inflight = << >>
    /\ eventsPending = {}
    /\ rafScheduled = TRUE
    /\ lastOp = "frame"
    /\ lastClick = << >>
    /\ frames = 0
    /\ histArgs = << >>
    /\ histogram = << >>
    /\ BandIdle
    /\ DashIdle
    /\ RefreshIdle
    /\ TrainIdle
    /\ LinkIdle
    /\ tileArg = << >>
    /\ fillStyle = << >>
    /\ drawn = Centres(critterDisplayData, currentView)

\* one frame of animationLoop, the centres of its arcs recorded
DrawnFrame ==
    /\ RenderFrame
    /\ drawn' = Centres(critterDisplayData', currentView)
    /\ UNCHANGED frames

NextDraw ==
    \/ \E v \in Views : SelectManualStart(v)
    \/ \E i \in 1..MaxSelectInFlight : ManualTerrainOk(i)
    \/ \E i \in 1..MaxSelectInFlight : ManualTerrainFail(i)
    \/ \E i \in 1..MaxSelectInFlight, list \in DrawLists :
          ManualCrittersOk(i, list)
    \/ \E i \in 1..MaxSelectInFlight : ManualCrittersFail(i)
    \/ SelectLiveStart
    \/ \E i \in 1..MaxSelectInFlight, list \in DrawLists :
          LiveUpdateOk(i, list)
    \/ \E i \in 1..MaxSelectInFlight : LiveUpdateFail(i)
    \/ DrawnFrame
    \/ \E p \in SelectPointers : CanvasClick(p)

\* clicks between the frames, the polls and the manual updates of a loaded
\* view
SpecDraw == InitDraw /\ [][NextDraw]_vars

\* the surface point the hit-tester compares the pointer with
HitPoint(r, view) ==
    <<critterCanvasX(r.currentX, view), critterCanvasY(r.currentY, view)>>

\* the square of the scaled distance from the pointer to a centre drawn
DrawnDistance2(id, pointer) ==
    (drawn[id][1] - Scaled(pointer[1])) * (drawn[id][1] - Scaled(pointer[1]))
    + (drawn[id][2] - Scaled(pointer[2])) * (drawn[id][2] - Scaled(pointer[2]))

AgeValues == {0, 7, 49, 50, 100, 101}

\* an age distribution of one species: age -> number of critters
AgeDistributions ==
    UNION {[{KeyOf(v) : v \in V} -> 1..MaxCount] :
              V \in {W \in SUBSET AgeValues : Cardinality(W) <= MaxEntries}}

\* the property names of both age distributions
allAgeKeys(latestStat) ==
    DOMAIN latestStat.herbivore_age_distribution
        \cup DOMAIN latestStat.carnivore_age_distribution

\* the highest age in the data, 100 when there is none
maxAge(latestStat) ==
    IF allAgeKeys(latestStat) = {} THEN 100
    ELSE LET ages == {ParseInt(k) : k \in allAgeKeys(latestStat)}
         IN  CHOOSE a \in ages : \A b \in ages : b <= a

\* Math.floor(maxAge / 50)
AgeBinSize(latestStat) == maxAge(latestStat) \div 50

herbivoreAgeHist(latestStat) ==
    createHistogramData(latestStat.herbivore_age_distribution,
                        AgeBinSize(latestStat), maxAge(latestStat))

carnivoreAgeHist(latestStat) ==
    createHistogramData(latestStat.carnivore_age_distribution,
                        AgeBinSize(latestStat), maxAge(latestStat))

\* the dashboard is about to draw the age chart of a snapshot
InitAge ==
    /\ currentView \in Views
    /\ currentTerrainData = << >>
    /\ critterDisplayData = EmptyCache
    /\ selectedCritter = << >>
    /\ statsContent = << >>
    /\ imageContainer = << >>
    /\ eventLogContainer = LogEmpty
    /\ inflight = << >>
    /\ eventsPending = {}
    /\ rafScheduled = TRUE
    /\ lastOp = "init"
    /\ lastList = << >>
    /\ lastClick = << >>
    /\ frames = 0
    /\ histArgs \in {<<[herbivore_age_distribution |-> h,
                        carnivore_age_distribution |-> c]>> :
                        h \in AgeDistributions, c \in AgeDistributions}
    /\ histogram = << >>
    /\ PagesIdle

\* the age chart of fetchAndDrawHistoryCharts: the two histograms
DrawAgeChart ==
    /\ histArgs # << >>
    /\ histogram = << >>
    /\ histogram' = <<[herbivoreAgeHist |-> herbivoreAgeHist(histArgs[1]),
                       carnivoreAgeHist |-> carnivoreAgeHist(histArgs[1])]>>
    /\ lastOp' = "ageChart"
    /\ UNCHANGED <<viewVars, critterDisplayData, selVars, inflight,
                   rafScheduled, lastList, lastClick, frames, histArgs,
                   pageVars>>

SpecAge == InitAge /\ [][DrawAgeChart]_vars

\* C39 as stated: the age histogram loses no critter: the bin counts of the
\* histogram of each species add up to the counts of the age distribution of
\* that species.
C39_AgeHistogramLosesNoCritter ==
    histogram # << >> =>
        /\ SumSeq(histogram[1].herbivoreAgeHist.data)
              = SumCounts(histArgs[1].herbivore_age_distribution,
                          DOMAIN histArgs[1].herbivore_age_distribution)
        /\ SumSeq(histogram[1].carnivoreAgeHist.data)
              = SumCounts(histArgs[1].carnivore_age_distribution,
                          DOMAIN histArgs[1].carnivore_age_distribution)

\* the oldest herbivores, of age 100, are in no bin of the fifty drawn
C39_OldestDropped ==
    /\ histogram # << >>
    /\ maxAge(histArgs[1]) = 100
    /\ Len(histogram[1].herbivoreAgeHist.data) = 50
    /\ KeyOf(100) \in DOMAIN histArgs[1].herbivore_age_distribution
    /\ SumSeq(histogram[1].herbivoreAgeHist.data)
          < SumCounts(histArgs[1].herbivore_age_distribution,
                      DOMAIN histArgs[1].herbivore_age_distribution)

\* ------------------------------------------- drawDistributionChart, whole

\* most bins of a distribution in SpecChart
MaxBins == 3

\* a distribution as the stats endpoint returns it, its bins in the order
\* Object.keys lists them: any order, no label twice
Distributions ==
    {d \in UNION {[1..n -> [label : BinLabels, count : {0, MaxCount}]] :
                     n \in 0..MaxBins} :
        \A j, k \in 1..Len(d) : j # k => d[j].label # d[k].label}

\* mutant: the labels are left in the order of Object.keys
SortedKeepsOrder(sorted, entry) == Append(sorted, entry)

\* one insertion of the stable sort with (a, b) => parseInt(a) - parseInt(b):
\* the entry goes behind the entries that do not compare greater
SortedInsert(sorted, entry) ==
    LET key(e) == ParseIntRadix(e.label, 10)[1]
        before == {k \in 1..Len(sorted) : key(sorted[k]) <= key(entry)}
        at == IF before = {} THEN 0
              ELSE CHOOSE k \in before : \A j \in before : j <= k
    IN  SubSeq(sorted, 1, at) \o <<entry>> \o SubSeq(sorted, at + 1, Len(sorted))

\* Object.keys(distribution).sort(...), the entries carried along
RECURSIVE SortEntries(_)
SortEntries(distribution) ==
    IF distribution = << >> THEN << >>
    ELSE SortedInsert(
             SortEntries(SubSeq(distribution, 1, Len(distribution) - 1)),
             distribution[Len(distribution)])

\* labels, data and colors that drawDistributionChart hands to updateBarChart
drawDistributionChart(distribution, criticalThreshold, warningThreshold, lowIsBad) ==
    LET sorted == SortEntries(distribution)
    IN  [labels |-> [k \in 1..Len(sorted) |-> sorted[k].label],
         data |-> [k \in 1..Len(sorted) |-> sorted[k].count],
         colors |-> [k \in 1..Len(sorted) |->
                        DistributionColor(sorted[k].label, criticalThreshold,
                                          warningThreshold, lowIsBad)]]

InitChart ==
    /\ ViewerIdle
    /\ DashIdle
    /\ RefreshIdle
    /\ TrainIdle
    /\ TileIdle
    /\ LinkIdle
    /\ bandArgs \in {<<[chart |-> "whole", distribution |-> d,
                        critical |-> c, warning |-> w, lowIsBad |-> b]>> :
                        d \in Distributions, c \in BandThresholds,
                        w \in BandThresholds, b \in BOOLEAN}
    /\ bandColor = << >>

\* the call of drawDistributionChart
DrawDistributionChart ==
    /\ bandArgs # << >>
    /\ bandArgs[1].chart = "whole"
    /\ bandColor = << >>
    /\ bandColor' = <<drawDistributionChart(
                          bandArgs[1].distribution, bandArgs[1].critical,
                          bandArgs[1].warning, bandArgs[1].lowIsBad)>>
    /\ lastOp' = "distributionChart"
    /\ UNCHANGED <<viewerVars, histVars, bandArgs, dashVars, refresh,
                   trainVars, tileVars, linkVars>>

SpecChart == InitChart /\ [][DrawDistributionChart]_vars

\* the place of a colour in the order critical, warning, ok
Severity(color) ==
    CASE color = criticalColor -> 0
      [] color = warningColor -> 1
      [] color = okColor -> 2

\* C40: the classification of drawDistributionChart is total and monotone.
\* Every bin of the distribution is drawn once, with one of the three
\* colours; the bars are in ascending order of their lower bounds; and with
\* ordered thresholds (critical <= warning with lowIsBad, critical >= warning
\* without) the colours along the bars are critical, then warning, then ok
\* with lowIsBad and ok, then warning, then critical without, never
\* interleaved.
C40_ClassesTotalAndMonotone ==
    (bandColor # << >> /\ bandArgs[1].chart = "whole") =>
        LET out == bandColor[1]
            a == bandArgs[1]
            n == Len(a.distribution)
        IN  /\ Len(out.labels) = n /\ Len(out.data) = n /\ Len(out.colors) = n
            /\ \A j \in 1..n : \E k \in 1..n :
                  /\ out.labels[k] = a.distribution[j].label
                  /\ out.data[k] = a.distribution[j].count
            /\ \A k \in 1..n :
                  out.colors[k] \in {criticalColor, warningColor, okColor}
            /\ \A j, k \in 1..n :
                  j < k => LowerBoundOf(out.labels[j])
                              < LowerBoundOf(out.labels[k])
            /\ (a.lowIsBad /\ a.critical <= a.warning) =>
                  \A j, k \in 1..n :
                      j < k => Severity(out.colors[j]) <= Severity(out.colors[k])
            /\ (~a.lowIsBad /\ a.critical >= a.warning) =>
                  \A j, k \in 1..n :
                      j < k => Severity(out.colors[j]) >= Severity(out.colors[k])

\* hunger bins listed as "50-59", "0-9", "20-29" with the thresholds 30 and
\* 10: the bars are drawn in the order ok, warning, critical
C40_Witness ==
    /\ bandColor # << >>
    /\ bandArgs[1].chart = "whole"
    /\ ~bandArgs[1].lowIsBad
    /\ bandArgs[1].critical = 30
    /\ bandArgs[1].warning = 10
    /\ Len(bandArgs[1].distribution) = 3
    /\ [k \in 1..3 |-> bandArgs[1].distribution[k].label]
          = <<Label(50, 59), Label(0, 9), Label(20, 29)>>
    /\ bandColor[1].labels = <<Label(0, 9), Label(20, 29), Label(50, 59)>>
    /\ bandColor[1].colors = <<okColor, warningColor, criticalColor>>

====
